---- MODULE Spec2Model ----
(***************************************************************************)
(* Group directory and spreadsheet ledger of the finance bot.              *)
(*                                                                         *)
(* The storage document (groups.json) is read and written whole by every   *)
(* directory method.  Command handlers are coroutines, but no handler      *)
(* awaits between its first load and its last save, and every spreadsheet   *)
(* call is a blocking call, so one handler is one atomic step.             *)
(*                                                                         *)
(* Tokens produced by secrets.token_hex / secrets.token_urlsafe are        *)
(* modelled as fresh values (a counter): a 48 or 64 bit random token is    *)
(* taken never to repeat.  Row ids are timestamps of a clock that is       *)
(* strictly increasing between two calls.  Reads and writes of the local   *)
(* storage file succeed.                                                   *)
(***************************************************************************)
EXTENDS Integers, Sequences, FiniteSets, TLC

VARIABLES data, nextToken, mintedAuth, last, cascade, sheet, clock, res,
          book, done, draft, verdict, file, procs, cls, shelf

vars == <<data, nextToken, mintedAuth, last, cascade, sheet, clock, res,
          book, done, draft, verdict, file, procs, cls, shelf>>

dirVars == <<data, nextToken, mintedAuth, last, cascade>>

sheetVars == <<sheet, clock, res>>

bookVars == <<book, done>>

validateVars == <<draft, verdict>>

raceVars == <<file, procs>>

classifyVars == <<cls>>

shelfVars == <<shelf>>

-----------------------------------------------------------------------------
(* Bounds of the model *)

NumUsers == 3

MaxTokens == 5

Users == 1..NumUsers

Tokens == 1..MaxTokens

(* ADMIN_USER_IDS comes from the environment; one administrator here. *)
ADMIN_USER_IDS == {1}

(* Python's None for ids, codes and spreadsheet ids (all tokens are >= 1). *)
None == 0

-----------------------------------------------------------------------------
(* The storage document.  A missing top-level key reads as empty           *)
(* (data.get("groups", {})), so the keys are always present here.  groups  *)
(* is a dict in insertion order: a sequence of entries carrying their key. *)
(* members is a list without duplicates whose order is never read: a set.  *)
(* title is derived from the group id and never read: left out.            *)

EmptyDict == [c \in {} |-> None]

EmptyStorage == [groups |-> << >>, auth_codes |-> << >>, authorised_users |-> EmptyDict]

Range(s) == {s[i] : i \in DOMAIN s}

FirstIdx(S) == IF S = {} THEN 0 ELSE CHOOSE i \in S : \A j \in S : i <= j

RemoveAt(s, i) == [j \in 1..(Len(s) - 1) |-> IF j < i THEN s[j] ELSE s[j + 1]]

GroupIds(d) == {d.groups[i].gid : i \in DOMAIN d.groups}

GroupIdx(d, gid) == FirstIdx({i \in DOMAIN d.groups : d.groups[i].gid = gid})

_is_admin_everyone(u) == TRUE

_is_admin(u) == u \in ADMIN_USER_IDS

_is_authorised_anyone(d, u) == TRUE

_is_authorised(d, u) == u \in {d.authorised_users[c] : c \in DOMAIN d.authorised_users}

_is_admin_or_authorised(d, u) == _is_admin(u) \/ _is_authorised(d, u)

_user_in_group_skipped(d, u) == FALSE

_user_in_group(d, u) == \E i \in DOMAIN d.groups : u \in d.groups[i].members

(* The first group, in dict order, that lists the user. *)
_user_group_id(d, u) ==
    LET i == FirstIdx({j \in DOMAIN d.groups : u \in d.groups[j].members})
    IN  IF i = 0 THEN None ELSE d.groups[i].gid

ResolveLedgerOfFirstGroup(d, u) ==
    IF _user_group_id(d, u) = None THEN None ELSE d.groups[1].spreadsheet_id

(* handle_message / handle_callback: the spreadsheet id of the user's group. *)
ResolveLedger(d, u) ==
    LET gid == _user_group_id(d, u)
    IN  IF gid = None THEN None ELSE d.groups[GroupIdx(d, gid)].spreadsheet_id

(* A /create argument: a link of some kind holding (or not) a spreadsheet   *)
(* id.  Each user sends links to a spreadsheet of their own.               *)
Links(u) == {[kind |-> "url", id |-> u], [kind |-> "bare44", id |-> u], [kind |-> "junk", id |-> None]}

_extract_spreadsheet_id(link) == IF link.kind \in {"url", "bare44"} THEN link.id ELSE None

(* data["groups"][group_id] = {...}: replaces the entry of an existing key, *)
(* appends a new key.                                                      *)
DictSet(groups, g) ==
    LET i == FirstIdx({j \in DOMAIN groups : groups[j].gid = g.gid})
    IN  IF i = 0 THEN Append(groups, g) ELSE [groups EXCEPT ![i] = g]

_create_group_owner_removed(d, owner, gid, code, sid) ==
    [d EXCEPT !.groups = DictSet(@, [gid |-> gid, owner_id |-> owner, members |-> {},
                                     invite_code |-> code, spreadsheet_id |-> sid])]

_create_group(d, owner, gid, code, sid) ==
    [d EXCEPT !.groups = DictSet(@, [gid |-> gid, owner_id |-> owner, members |-> {owner},
                                     invite_code |-> code, spreadsheet_id |-> sid])]

_generate_invite_code_all(d, u, code) ==
    LET gid == _user_group_id(d, u)
    IN  IF gid = None
        THEN [code |-> None, data |-> d]
        ELSE [code |-> code,
              data |-> [d EXCEPT !.groups = [i \in DOMAIN @ |-> [@[i] EXCEPT !.invite_code = code]]]]

_generate_invite_code(d, u, code) ==
    LET gid == _user_group_id(d, u)
    IN  IF gid = None
        THEN [code |-> None, data |-> d]
        ELSE [code |-> code, data |-> [d EXCEPT !.groups[GroupIdx(d, gid)].invite_code = code]]

_join_with_code_replace(d, u, code) ==
    LET i == FirstIdx({j \in DOMAIN d.groups : d.groups[j].invite_code = code})
    IN  IF i = 0
        THEN [ok |-> FALSE, data |-> d]
        ELSE [ok |-> TRUE, data |-> [d EXCEPT !.groups[i].members = {u}]]

_join_with_code_any(d, u, code) ==
    LET i == FirstIdx({j \in DOMAIN d.groups : d.groups[j].invite_code = code})
        k == IF i = 0 /\ d.groups # << >> THEN 1 ELSE i
    IN  IF k = 0
        THEN [ok |-> FALSE, data |-> d]
        ELSE [ok |-> TRUE, data |-> [d EXCEPT !.groups[k].members = @ \cup {u}]]

_join_with_code_consumes(d, u, code) ==
    LET i == FirstIdx({j \in DOMAIN d.groups : d.groups[j].invite_code = code})
    IN  IF i = 0
        THEN [ok |-> FALSE, data |-> d]
        ELSE [ok |-> TRUE, data |-> [d EXCEPT !.groups[i].members = @ \cup {u},
                                              !.groups[i].invite_code = None]]

_join_with_code_exclusive(d, u, code) ==
    LET i == FirstIdx({j \in DOMAIN d.groups : d.groups[j].invite_code = code})
    IN  IF i = 0 \/ _user_in_group(d, u)
        THEN [ok |-> FALSE, data |-> d]
        ELSE [ok |-> TRUE, data |-> [d EXCEPT !.groups[i].members = @ \cup {u}]]

(* Joins the first group, in dict order, whose invite code matches. *)
_join_with_code(d, u, code) ==
    LET i == FirstIdx({j \in DOMAIN d.groups : d.groups[j].invite_code = code})
    IN  IF i = 0
        THEN [ok |-> FALSE, data |-> d]
        ELSE [ok |-> TRUE, data |-> [d EXCEPT !.groups[i].members = @ \cup {u}]]

_remove_user_from_group_resets(d, u, gid) ==
    LET i == GroupIdx(d, gid)
    IN  IF i = 0 THEN [ok |-> FALSE, data |-> d]
        ELSE IF u \in d.groups[i].members
        THEN [ok |-> TRUE, data |-> [d EXCEPT !.groups[i].members = {d.groups[i].owner_id}]]
        ELSE [ok |-> FALSE, data |-> d]

_remove_user_from_group(d, u, gid) ==
    LET i == GroupIdx(d, gid)
    IN  IF i = 0 THEN [ok |-> FALSE, data |-> d]
        ELSE IF u \in d.groups[i].members
        THEN [ok |-> TRUE, data |-> [d EXCEPT !.groups[i].members = @ \ {u}]]
        ELSE [ok |-> FALSE, data |-> d]

_delete_group_revokes(d, gid) ==
    LET i == GroupIdx(d, gid)
    IN  IF i = 0 THEN [ok |-> FALSE, data |-> d]
        ELSE [ok |-> TRUE, data |-> [d EXCEPT !.groups = RemoveAt(@, i),
                                              !.authorised_users = EmptyDict]]

_delete_group_keeps(d, gid) ==
    LET i == GroupIdx(d, gid)
    IN  IF i = 0 THEN [ok |-> FALSE, data |-> d]
        ELSE [ok |-> TRUE, data |-> [d EXCEPT !.groups[i].members = @ \ {d.groups[i].owner_id}]]

_delete_group(d, gid) ==
    LET i == GroupIdx(d, gid)
    IN  IF i = 0 THEN [ok |-> FALSE, data |-> d]
        ELSE [ok |-> TRUE, data |-> [d EXCEPT !.groups = RemoveAt(@, i)]]

-----------------------------------------------------------------------------
(* Command handlers, each as the function it computes: from the document,  *)
(* the next fresh token, the user and the command's arguments to the       *)
(* document it saves (the one it loaded when it saves nothing), the reply  *)
(* it sends, the value the reply is about (arg) and the number of fresh    *)
(* tokens it drew.                                                         *)

Out(d, r, a, n) == [data |-> d, reply |-> r, arg |-> a, used |-> n]

create_group_command(d, tok, u, args) ==
    IF ~_is_admin_or_authorised(d, u) THEN Out(d, "not_authorised", None, 0)
    ELSE IF _user_in_group(d, u) THEN Out(d, "already_in_group", None, 0)
    ELSE IF args = << >> THEN Out(d, "usage", None, 0)
    ELSE IF _extract_spreadsheet_id(args[1]) = None THEN Out(d, "bad_link", None, 0)
    ELSE Out(_create_group(d, u, tok, tok + 1, _extract_spreadsheet_id(args[1])),
             "created", tok, 2)

invite_command(d, tok, u) ==
    LET r == _generate_invite_code(d, u, tok)
    IN  IF r.code = None THEN Out(d, "need_group", None, 0)
        ELSE Out(r.data, "invite_code", r.code, 1)

join_command(d, u, args) ==
    IF ~_is_admin_or_authorised(d, u) THEN Out(d, "not_authorised", None, 0)
    ELSE IF _user_in_group(d, u) THEN Out(d, "already_in_group", None, 0)
    ELSE IF args = << >> THEN Out(d, "usage", None, 0)
    ELSE LET r == _join_with_code(d, u, args[1])
         IN  Out(r.data, IF r.ok THEN "joined" ELSE "bad_invite_code", args[1], 0)

CodePendingOrClaimed(d, code) ==
    code \in Range(d.auth_codes) \/ code \in DOMAIN d.authorised_users

(* auth_command, claiming branch: is the code in the pending list? *)
CodePending(d, code) == code \in Range(d.auth_codes)

DictPut(f, k, v) == [c \in DOMAIN f \cup {k} |-> IF c = k THEN v ELSE f[c]]

(* [c for c in s if c != drop] *)
Without(s, drop) ==
    LET F[i \in 0..Len(s)] ==
            IF i = 0 THEN << >>
            ELSE IF s[i] = drop THEN F[i - 1] ELSE Append(F[i - 1], s[i])
    IN  F[Len(s)]

ClaimCodeKeepsPending(d, code, u) ==
    [d EXCEPT !.authorised_users = DictPut(@, code, u)]

ClaimCodeForgetsClaimant(d, code, u) ==
    [d EXCEPT !.auth_codes = Without(@, code)]

(* auth_command, claiming branch: record the claimant, drop the code. *)
ClaimCode(d, code, u) ==
    [d EXCEPT !.authorised_users = DictPut(@, code, u),
              !.auth_codes = Without(@, code)]

auth_command(d, tok, u, args) ==
    IF args # << >>
    THEN IF CodePending(d, args[1])
         THEN Out(ClaimCode(d, args[1], u), "authorised", args[1], 0)
         ELSE IF args[1] \in DOMAIN d.authorised_users /\ d.authorised_users[args[1]] = u
         THEN Out(d, "already_authorised", args[1], 0)
         ELSE Out(d, "invalid_or_used", args[1], 0)
    ELSE IF ~_is_admin(u) THEN Out(d, "admins_only", None, 0)
    ELSE Out([d EXCEPT !.auth_codes = Append(@, tok)], "minted", tok, 1)

leave_command(d, u) ==
    LET group_id == _user_group_id(d, u)
    IN  IF group_id = None THEN Out(d, "not_in_group", None, 0)
        ELSE IF d.groups[GroupIdx(d, group_id)].owner_id = u
        THEN LET r == _delete_group(d, group_id)
             IN  Out(r.data, IF r.ok THEN "group_deleted" ELSE "delete_failed", group_id, 0)
        ELSE LET r == _remove_user_from_group(d, u, group_id)
             IN  Out(r.data, IF r.ok THEN "left" ELSE "leave_failed", group_id, 0)

-----------------------------------------------------------------------------
(* The spreadsheet: one sheet as the sequence of its grid rows down to the *)
(* last row that holds anything; the rows below are blank.  A row holds    *)
(* the cells of columns A..F (strings, "" for an empty cell), the id cell  *)
(* of column L (a string as the sequence of its characters, so that        *)
(* strip() can be computed) and the author cell of column M.               *)

(* The space character in an id string; every other character is not 32.  *)
SP == 32

(* A JSON null in the body of a values.update: the cell is left as it is.  *)
Null == "<null>"

BlankCells == <<"", "", "", "", "", "">>

BlankRow == [cells |-> BlankCells, id |-> << >>, author |-> ""]

column_headers == <<"Date", "Month", "Category", "Comment", "Amount", "Currency">>

HeaderRow == [cells |-> column_headers, id |-> << >>, author |-> ""]

RowAt(s, i) == IF i \in DOMAIN s THEN s[i] ELSE BlankRow

(* The grid rows down to the last row that holds anything. *)
TrimRows(s) ==
    LET n == FirstIdx({k \in 0..Len(s) : \A j \in (k + 1)..Len(s) : s[j] = BlankRow})
    IN  SubSeq(s, 1, n)

(* values.get leaves out the empty cells at the end of a row and the empty *)
(* rows at the end of the range.                                           *)
TrimCells(c) ==
    LET n == FirstIdx({k \in 0..Len(c) : \A j \in (k + 1)..Len(c) : c[j] = ""})
    IN  SubSeq(c, 1, n)

ValuesAF(s) ==
    LET rows == [i \in DOMAIN s |-> TrimCells(s[i].cells)]
        n == FirstIdx({k \in 0..Len(rows) : \A j \in (k + 1)..Len(rows) : rows[j] = << >>})
    IN  SubSeq(rows, 1, n)

ValuesL(s) ==
    LET rows == [i \in DOMAIN s |-> IF s[i].id = << >> THEN << >> ELSE <<s[i].id>>]
        n == FirstIdx({k \in 0..Len(rows) : \A j \in (k + 1)..Len(rows) : rows[j] = << >>})
    IN  SubSeq(rows, 1, n)

(* What a read can do: answer, raise HttpError, raise another exception.   *)
ReadOutcomes == {"ok", "http", "other"}

(* read_data(sheet_name): the rows of A:F, [] on HttpError.  Another       *)
(* exception leaves read_data; get_next_row handles that case itself.      *)
read_data(s, ro) == IF ro = "ok" THEN ValuesAF(s) ELSE << >>

RECURSIVE ScanRowsLast(_, _)
ScanRowsLast(rows, idx) ==
    IF idx > Len(rows) THEN Len(rows)
    ELSE IF Len(rows[idx]) = 0 THEN idx
    ELSE IF Len(rows[idx]) < 5 THEN 2
    ELSE IF rows[idx][5] = "" THEN idx
    ELSE ScanRowsLast(rows, idx + 1)

(* The loop of get_next_row from row idx on.  row[4] of a row of one to    *)
(* four cells raises IndexError, which the method answers with 2.          *)
RECURSIVE ScanRows(_, _)
ScanRows(rows, idx) ==
    IF idx > Len(rows) THEN Len(rows) + 1
    ELSE IF Len(rows[idx]) = 0 THEN idx
    ELSE IF Len(rows[idx]) < 5 THEN 2
    ELSE IF rows[idx][5] = "" THEN idx
    ELSE ScanRows(rows, idx + 1)

get_next_row(s, ro) == IF ro = "other" THEN 2 ELSE ScanRows(read_data(s, ro), 1)

(* values.update of one cell: a null leaves the cell as it is. *)
Put(old, v) == IF v = Null THEN old ELSE v

(* The grid with rows 1..r present. *)
Grow(s, r) == [i \in 1..(IF r > Len(s) THEN r ELSE Len(s)) |-> RowAt(s, i)]

WriteBF(s, r, values) ==
    [Grow(s, r) EXCEPT ![r].cells =
        [k \in 1..6 |-> IF k = 1 THEN @[1] ELSE Put(@[k], values[k - 1])]]

WriteA(s, r, date) == [Grow(s, r) EXCEPT ![r].cells[1] = Put(@, date)]

WriteL(s, r, id_value) == [Grow(s, r) EXCEPT ![r].id = id_value]

WriteM(s, r, username) == [Grow(s, r) EXCEPT ![r].author = username]

append_data_rollback(s, values, date, username, id_value, ro, fail) ==
    LET last_row == get_next_row(s, ro)
        s1 == WriteBF(s, last_row, values)
        s2 == WriteA(s1, last_row, date)
        s3 == IF id_value # << >> THEN WriteL(s2, last_row, id_value) ELSE s2
        s4 == IF username # Null THEN WriteM(s3, last_row, username) ELSE s3
    IN  IF fail \in 1..2 \/ (fail = 3 /\ id_value # << >>) \/ (fail = 4 /\ username # Null)
        THEN [ok |-> FALSE, row |-> last_row, sheet |-> s]
        ELSE [ok |-> TRUE, row |-> last_row, sheet |-> TrimRows(s4)]

(* append_data: the row is resolved once, then B:F, A, L and M are written *)
(* in this order; write number fail (1..4) raises and nothing after it is  *)
(* written.  id_value << >> and username Null stand for None.              *)
append_data(s, values, date, username, id_value, ro, fail) ==
    LET last_row == get_next_row(s, ro)
        s1 == WriteBF(s, last_row, values)
        s2 == WriteA(s1, last_row, date)
        s3 == IF id_value # << >> THEN WriteL(s2, last_row, id_value) ELSE s2
        s4 == IF username # Null THEN WriteM(s3, last_row, username) ELSE s3
    IN  IF fail = 1 THEN [ok |-> FALSE, row |-> last_row, sheet |-> s]
        ELSE IF fail = 2 THEN [ok |-> FALSE, row |-> last_row, sheet |-> TrimRows(s1)]
        ELSE IF fail = 3 /\ id_value # << >>
        THEN [ok |-> FALSE, row |-> last_row, sheet |-> TrimRows(s2)]
        ELSE IF fail = 4 /\ username # Null
        THEN [ok |-> FALSE, row |-> last_row, sheet |-> TrimRows(s3)]
        ELSE [ok |-> TRUE, row |-> last_row, sheet |-> TrimRows(s4)]

(* One values.update of append_data: the columns it addresses, the row,    *)
(* the valueInputOption and the values of its body.                        *)
Update(range, row, option, body) ==
    [range |-> range, row |-> row, option |-> option, body |-> body]

ApplyUpdate(s, w) ==
    CASE w.range = "B:F" -> WriteBF(s, w.row, w.body)
      [] w.range = "A" -> WriteA(s, w.row, w.body)
      [] w.range = "L" -> WriteL(s, w.row, w.body)
      [] w.range = "M" -> WriteM(s, w.row, w.body)

RECURSIVE ApplyUpdates(_, _)
ApplyUpdates(s, ws) ==
    IF ws = << >> THEN s ELSE ApplyUpdates(ApplyUpdate(s, Head(ws)), Tail(ws))

append_data_updates_reresolved(s, values, date, username, id_value, ro) ==
    LET last_row == get_next_row(s, ro)
        date_row == get_next_row(WriteBF(s, last_row, values), ro)
    IN  <<Update("B:F", last_row, "RAW", values),
          Update("A", date_row, "USER_ENTERED", date)>>
        \o (IF id_value # << >> THEN <<Update("L", last_row, "RAW", id_value)>> ELSE << >>)
        \o (IF username # Null THEN <<Update("M", last_row, "RAW", username)>> ELSE << >>)

(* The values.update calls append_data issues, in the order it issues      *)
(* them, when none of them fails.                                          *)
append_data_updates(s, values, date, username, id_value, ro) ==
    LET last_row == get_next_row(s, ro)
    IN  <<Update("B:F", last_row, "RAW", values),
          Update("A", last_row, "USER_ENTERED", date)>>
        \o (IF id_value # << >> THEN <<Update("L", last_row, "RAW", id_value)>> ELSE << >>)
        \o (IF username # Null THEN <<Update("M", last_row, "RAW", username)>> ELSE << >>)

RECURSIVE LStrip(_)
LStrip(t) == IF t # << >> /\ Head(t) = SP THEN LStrip(Tail(t)) ELSE t

RECURSIVE RStrip(_)
RStrip(t) == IF t # << >> /\ t[Len(t)] = SP THEN RStrip(SubSeq(t, 1, Len(t) - 1)) ELSE t

(* str.strip() *)
Strip(t) == LStrip(RStrip(t))

RECURSIVE FindRowOrFirst(_, _, _)
FindRowOrFirst(values, id_value, idx) ==
    IF idx > Len(values) THEN (IF Len(values) > 0 THEN 1 ELSE 0)
    ELSE LET cell == IF values[idx] # << >> THEN values[idx][1] ELSE << >>
         IN  IF Strip(cell) = Strip(id_value) THEN idx
             ELSE FindRowOrFirst(values, id_value, idx + 1)

(* The loop of delete_row_by_id over the values of L:L: the first row      *)
(* whose cell, stripped, equals the stripped id; 0 for None.               *)
RECURSIVE FindRow(_, _, _)
FindRow(values, id_value, idx) ==
    IF idx > Len(values) THEN 0
    ELSE LET cell == IF values[idx] # << >> THEN values[idx][1] ELSE << >>
         IN  IF Strip(cell) = Strip(id_value) THEN idx
             ELSE FindRow(values, id_value, idx + 1)

(* deleteDimension of rows startIndex (0-based) to endIndex (exclusive).   *)
DeleteDimension(s, startIndex, endIndex) ==
    TrimRows(IF startIndex + 1 \in DOMAIN s THEN RemoveAt(s, startIndex + 1) ELSE s)

delete_row_by_id_or_last(s, id_value, fail) ==
    LET found == FindRow(ValuesL(s), id_value, 1)
        target_row == IF found = 0 THEN Len(s) ELSE found
    IN  IF fail = 1 THEN [ok |-> FALSE, row |-> 0, sheet |-> s]
        ELSE IF target_row = 0 THEN [ok |-> FALSE, row |-> 0, sheet |-> s]
        ELSE IF fail \in {2, 3} THEN [ok |-> FALSE, row |-> target_row, sheet |-> s]
        ELSE [ok |-> TRUE, row |-> target_row,
              sheet |-> DeleteDimension(s, target_row - 1, target_row)]

delete_row_by_id_row_below(s, id_value, fail) ==
    LET target_row == FindRow(ValuesL(s), id_value, 1)
    IN  IF fail = 1 THEN [ok |-> FALSE, row |-> 0, sheet |-> s]
        ELSE IF target_row = 0 THEN [ok |-> FALSE, row |-> 0, sheet |-> s]
        ELSE IF fail \in {2, 3} THEN [ok |-> FALSE, row |-> target_row, sheet |-> s]
        ELSE [ok |-> TRUE, row |-> target_row,
              sheet |-> DeleteDimension(s, target_row, target_row + 1)]

(* delete_row_by_id: reads L:L (call 1), finds the row, reads the sheet's  *)
(* id (call 2) and deletes the row (call 3); call number fail raises and   *)
(* the method answers False.                                               *)
delete_row_by_id(s, id_value, fail) ==
    LET target_row == FindRow(ValuesL(s), id_value, 1)
    IN  IF fail = 1 THEN [ok |-> FALSE, row |-> 0, sheet |-> s]
        ELSE IF target_row = 0 THEN [ok |-> FALSE, row |-> 0, sheet |-> s]
        ELSE IF fail \in {2, 3} THEN [ok |-> FALSE, row |-> target_row, sheet |-> s]
        ELSE [ok |-> TRUE, row |-> target_row,
              sheet |-> DeleteDimension(s, target_row - 1, target_row)]

RowIdOfEarlierRun(now) == <<9>>

(* process_transaction's row id: the timestamp "<date> <time>" of now.     *)
RowId(now) == <<now, SP, now>>

-----------------------------------------------------------------------------
(* The bot handling commands one after the other, from the empty document  *)
(* _ensure_storage writes.  last is a history variable: the last command   *)
(* that saved a changed document, with its user, the value it was about    *)
(* and its reply; mintedAuth is the set of authorization codes minted;     *)
(* cascade is the set of users whose group was deleted by its owner's      *)
(* leave and who have not created or joined a group since.                 *)

Cmd(c, u, a, r) == [cmd |-> c, user |-> u, arg |-> a, reply |-> r]

NoCmd == Cmd("", None, None, "")

NoRes == [op |-> "", ok |-> FALSE, row |-> 0, id |-> << >>]

Args(S) == {<< >>} \cup {<<x>> : x \in S}

(* No spreadsheet opened, no draft handed to the validator, no verdict. *)
NoBook == << >>

NoDraft == << >>

NoVerdict == [kind |-> ""]

(* No storage file under contention, no caller on it, no classification. *)
NoFile == << >>

NoProcs == << >>

NoCls == << >>

(* No spreadsheets of several groups. *)
NoShelf == << >>

Handle(c, u, r) ==
    /\ nextToken + r.used - 1 <= MaxTokens
    /\ data' = r.data
    /\ nextToken' = nextToken + r.used
    /\ mintedAuth' = IF r.reply = "minted" THEN mintedAuth \cup {r.arg} ELSE mintedAuth
    /\ last' = IF r.data # data THEN Cmd(c, u, r.arg, r.reply) ELSE last
    /\ cascade' = IF r.reply = "group_deleted"
                  THEN cascade \cup data.groups[GroupIdx(data, r.arg)].members
                  ELSE IF r.reply \in {"created", "joined"} THEN cascade \ {u}
                  ELSE cascade
    /\ UNCHANGED <<sheetVars, bookVars, validateVars, raceVars, classifyVars, shelfVars>>

Create(u, args) == Handle("create", u, create_group_command(data, nextToken, u, args))

Invite(u) == Handle("invite", u, invite_command(data, nextToken, u))

Join(u, args) == Handle("join", u, join_command(data, u, args))

Auth(u, args) == Handle("auth", u, auth_command(data, nextToken, u, args))

LeaveDroppingRows(u) ==
    LET r == leave_command(data, u)
    IN  /\ data' = r.data
        /\ last' = IF r.data # data THEN Cmd("leave", u, r.arg, r.reply) ELSE last
        /\ cascade' = IF r.reply = "group_deleted"
                      THEN cascade \cup data.groups[GroupIdx(data, r.arg)].members
                      ELSE cascade
        /\ book' = IF r.reply \in {"group_deleted", "left"}
                   THEN [n \in DOMAIN book |-> <<HeaderRow>>] ELSE book
        /\ UNCHANGED <<nextToken, mintedAuth, sheetVars, done, validateVars, raceVars, classifyVars, shelfVars>>

Leave(u) == Handle("leave", u, leave_command(data, u))

(* The codes a user can type: every token minted so far, and one string   *)
(* that is no token yet.                                                   *)
Known == {t \in Tokens : t <= nextToken}

Init ==
    /\ data = EmptyStorage
    /\ nextToken = 1
    /\ mintedAuth = {}
    /\ last = NoCmd
    /\ cascade = {}
    /\ sheet = << >>
    /\ clock = 1
    /\ res = NoRes
    /\ book = NoBook
    /\ done = {}
    /\ draft = NoDraft
    /\ verdict = NoVerdict
    /\ file = NoFile
    /\ procs = NoProcs
    /\ cls = NoCls
    /\ shelf = NoShelf

Next ==
    \/ \E u \in Users : \E a \in Args(Links(u)) : Create(u, a)
    \/ \E u \in Users : Invite(u)
    \/ \E u \in Users, a \in Args(Known) : Join(u, a)
    \/ \E u \in Users, a \in Args(Known) : Auth(u, a)
    \/ \E u \in Users : Leave(u)

Spec == Init /\ [][Next]_vars

-----------------------------------------------------------------------------
(* Properties of the group directory under Spec *)

GroupsOf(d, u) == {i \in DOMAIN d.groups : u \in d.groups[i].members}

(* A user the administrators let in: listed in ADMIN_USER_IDS, or recorded *)
(* as the claimant of some authorization code.                             *)
LetIn(d, u) ==
    u \in ADMIN_USER_IDS \/ \E c \in DOMAIN d.authorised_users : d.authorised_users[c] = u

(* C1: after any sequence of /create, /join, /leave, /invite and /auth     *)
(* commands every user is in the members of at most one group.             *)
C1_AtMostOneGroup == \A u \in Users : Cardinality(GroupsOf(data, u)) <= 1

C1_Witness ==
    /\ Len(data.groups) >= 2
    /\ \E u \in Users : Cardinality(GroupsOf(data, u)) = 1 /\ last.user = u /\ last.cmd = "create"

(* C2: the owner of every group of the store is one of its members.        *)
C2_OwnerIsMember ==
    \A i \in DOMAIN data.groups : data.groups[i].owner_id \in data.groups[i].members

C2_Witness ==
    /\ last.cmd = "leave" /\ last.reply = "left"
    /\ \E i \in DOMAIN data.groups : data.groups[i].gid = last.arg

(* C3: no authorization code is both pending and claimed, and every code   *)
(* ever minted is in exactly one of the pending list and the claimed map.  *)
C3_PendingXorClaimed ==
    /\ Range(data.auth_codes) \cap DOMAIN data.authorised_users = {}
    /\ \A c \in mintedAuth :
          (c \in Range(data.auth_codes)) # (c \in DOMAIN data.authorised_users)

C3_Witness ==
    /\ Range(data.auth_codes) # {}
    /\ DOMAIN data.authorised_users # {}
    /\ last.cmd = "auth" /\ last.reply = "authorised"

(* C4: redeeming a pending code removes it from the pending list and       *)
(* records it for the claimant; a later redemption of that code by another *)
(* user is answered "invalid or already used" and changes nothing.         *)
C4_Redeem ==
    /\ last.cmd = "auth" /\ last.reply = "authorised" =>
          /\ last.arg \notin Range(data.auth_codes)
          /\ last.arg \in DOMAIN data.authorised_users
          /\ data.authorised_users[last.arg] = last.user
    /\ \A u \in Users, c \in Tokens :
          LET r == auth_command(data, nextToken, u, <<c>>)
          IN  /\ c \in Range(data.auth_codes) =>
                    /\ r.reply = "authorised"
                    /\ c \notin Range(r.data.auth_codes)
                    /\ c \in DOMAIN r.data.authorised_users
                    /\ r.data.authorised_users[c] = u
              /\ (c \in DOMAIN data.authorised_users /\ data.authorised_users[c] # u) =>
                    /\ r.reply = "invalid_or_used"
                    /\ r.data = data

C4_Witness ==
    /\ last.cmd = "auth" /\ last.reply = "authorised"
    /\ last.arg \in DOMAIN data.authorised_users
    /\ \E v \in Users : v # last.user /\ ~LetIn(data, v)

(* C5: groups are created and joined only by administrators and users who  *)
(* redeemed a code: every member of every group is one, and a /create or   *)
(* /join by anybody else leaves the store as it is.                        *)
C5_OnlyLetIn ==
    /\ \A i \in DOMAIN data.groups : \A m \in data.groups[i].members : LetIn(data, m)
    /\ last.cmd \in {"create", "join"} => LetIn(data, last.user)
    /\ \A u \in Users : ~LetIn(data, u) =>
          /\ \A a \in Args(Links(u)) :
                create_group_command(data, nextToken, u, a).data = data
          /\ \A a \in Args(Tokens) : join_command(data, u, a).data = data

C5_Witness ==
    /\ \E i \in DOMAIN data.groups :
          \E m \in data.groups[i].members : m \notin ADMIN_USER_IDS
    /\ \E u \in Users : ~LetIn(data, u)

(* C6: an owner's leave removes the group, and every user who was a member *)
(* of it resolves to no group and no ledger until creating or joining      *)
(* again.                                                                  *)
C6_OwnerLeaveCascades ==
    /\ \A m \in cascade : _user_group_id(data, m) = None /\ ResolveLedger(data, m) = None
    /\ last.cmd = "leave" /\ last.reply = "group_deleted" => last.arg \notin GroupIds(data)
    /\ \A u \in Users :
          LET gid == _user_group_id(data, u)
          IN  (gid # None /\ data.groups[GroupIdx(data, gid)].owner_id = u) =>
                 LET r == leave_command(data, u)
                 IN  /\ r.reply = "group_deleted"
                     /\ gid \notin GroupIds(r.data)
                     /\ \A m \in data.groups[GroupIdx(data, gid)].members :
                           ResolveLedger(r.data, m) = None

C6_Witness ==
    /\ last.cmd = "leave" /\ last.reply = "group_deleted"
    /\ \E m \in cascade : m # last.user

(* C7: _join_with_code with a code that is some group's invite code        *)
(* returns true and adds the user to the members of exactly one group,     *)
(* every other group staying as it is; the same call again returns true    *)
(* and changes no group's members.                                         *)
C7_JoinIdempotent ==
    \A u \in Users, c \in Tokens :
        LET r == _join_with_code(data, u, c)
            hit == {i \in DOMAIN data.groups : data.groups[i].invite_code = c}
            again == _join_with_code(r.data, u, c)
        IN  hit # {} =>
              /\ r.ok
              /\ DOMAIN r.data.groups = DOMAIN data.groups
              /\ Cardinality({i \in hit :
                     /\ r.data.groups[i].members = data.groups[i].members \cup {u}
                     /\ \A j \in DOMAIN data.groups \ {i} :
                           r.data.groups[j] = data.groups[j]}) = 1
              /\ again.ok
              /\ \A i \in DOMAIN r.data.groups :
                    again.data.groups[i].members = r.data.groups[i].members

C7_Witness ==
    /\ last.cmd = "join" /\ last.reply = "joined"
    /\ \E i \in DOMAIN data.groups :
          /\ data.groups[i].invite_code = last.arg
          /\ last.user \in data.groups[i].members
          /\ Cardinality(data.groups[i].members) >= 2

-----------------------------------------------------------------------------
(* The ledger protocol against one sheet of a user's spreadsheet.  The     *)
(* spreadsheet is the user's own: it starts with any rows.                 *)

MaxInitRows == 2

MaxClock == 2

(* The id of a transaction of an earlier run. *)
Seen == <<9>>

(* The rows a sheet can start with: the header, a transaction row of an    *)
(* earlier run with its id (as written, or padded by a later edit), an     *)
(* empty row, a row filled up to the category only, and a row with a       *)
(* currency but no amount.                                                 *)
InitRows ==
    {HeaderRow}
    \cup {[cells |-> <<"01.02.2024", "Feb", "Food", "tea", "3", "EUR">>, id |-> i, author |-> "ann"] :
             i \in {Seen, <<SP>> \o Seen \o <<SP>>}}
    \cup {BlankRow}
    \cup {[cells |-> <<"01.02.2024", "Feb", "Food", "", "", "">>, id |-> << >>, author |-> ""]}
    \cup {[cells |-> <<"", "", "", "", "", "EUR">>, id |-> << >>, author |-> ""]}

InitSheets ==
    {s \in UNION {[1..n -> InitRows] : n \in 0..MaxInitRows} : TrimRows(s) = s}

(* What process_transaction passes to append_data for a valid draft: the   *)
(* amount and the currency are never empty, the comment may be null.       *)
Drafts ==
    {[values |-> <<"Mar", "Food", Null, "12.5", "USD">>, date |-> "01.03.2024", username |-> "bob"]}

(* The ids a cancel can carry: the row id of some transaction, of this run *)
(* or an earlier one (never the empty string: a cancel button is made only *)
(* for a row id that is set), as it is or padded with a space.             *)
TargetIds ==
    {RowId(n) : n \in 1..MaxClock} \cup {RowId(n) \o <<SP>> : n \in 1..MaxClock}
    \cup {Seen, <<SP>> \o Seen, <<8>>}

AppendData(d, ro, fail) ==
    /\ clock <= MaxClock
    /\ LET r == append_data(sheet, d.values, d.date, d.username, RowId(clock), ro, fail)
       IN  /\ sheet' = r.sheet
           /\ res' = [op |-> "append", ok |-> r.ok, row |-> r.row, id |-> RowId(clock)]
    /\ clock' = clock + 1
    /\ UNCHANGED <<dirVars, bookVars, validateVars, raceVars, classifyVars, shelfVars>>

DeleteRowById(id_value, fail) ==
    /\ LET r == delete_row_by_id(sheet, id_value, fail)
       IN  /\ sheet' = r.sheet
           /\ res' = IF r.sheet # sheet
                     THEN [op |-> "delete", ok |-> r.ok, row |-> r.row, id |-> id_value]
                     ELSE res
    /\ UNCHANGED <<clock, dirVars, bookVars, validateVars, raceVars, classifyVars, shelfVars>>

InitSheet ==
    /\ data = EmptyStorage
    /\ nextToken = 1
    /\ mintedAuth = {}
    /\ last = NoCmd
    /\ cascade = {}
    /\ sheet \in InitSheets
    /\ clock = 1
    /\ res = NoRes
    /\ book = NoBook
    /\ done = {}
    /\ draft = NoDraft
    /\ verdict = NoVerdict
    /\ file = NoFile
    /\ procs = NoProcs
    /\ cls = NoCls
    /\ shelf = NoShelf

NextSheet ==
    \/ \E d \in Drafts, ro \in ReadOutcomes, fail \in 0..4 : AppendData(d, ro, fail)
    \/ \E id_value \in TargetIds, fail \in 0..3 : DeleteRowById(id_value, fail)

SpecSheet == InitSheet /\ [][NextSheet]_vars

(* The protocol against a sheet in use: below the header it holds up to    *)
(* two rows of the kinds a sheet can start with.                           *)
UsedSheets ==
    {s \in UNION {[1..n -> InitRows] : n \in 1..3} : TrimRows(s) = s /\ s[1] = HeaderRow}

InitUsed ==
    /\ data = EmptyStorage
    /\ nextToken = 1
    /\ mintedAuth = {}
    /\ last = NoCmd
    /\ cascade = {}
    /\ sheet \in UsedSheets
    /\ clock = 1
    /\ res = NoRes
    /\ book = NoBook
    /\ done = {}
    /\ draft = NoDraft
    /\ verdict = NoVerdict
    /\ file = NoFile
    /\ procs = NoProcs
    /\ cls = NoCls
    /\ shelf = NoShelf

SpecUsed == InitUsed /\ [][NextSheet]_vars

(* C32: append_data resolves the row once, before its first write, and     *)
(* issues its writes at that row in the order B:F (the data columns), A    *)
(* (the date, as USER_ENTERED), L (the id), M (the author); the sheet it   *)
(* leaves is the sheet after these writes in this order, or after those    *)
(* before the write that failed.                                           *)
C32_WritesInOrderAtOneRow ==
    \A d \in Drafts, ro \in ReadOutcomes :
    \A id_value \in {RowId(clock), << >>}, username \in {d.username, Null} :
        LET w == append_data_updates(sheet, d.values, d.date, username, id_value, ro)
            row == get_next_row(sheet, ro)
            Before(fail) == IF fail = 1 THEN 0
                            ELSE IF fail = 2 THEN 1
                            ELSE IF fail = 3 /\ id_value # << >> THEN 2
                            ELSE IF fail = 4 /\ username # Null THEN Len(w) - 1
                            ELSE Len(w)
        IN  /\ \A k \in DOMAIN w : w[k].row = row
            /\ [k \in DOMAIN w |-> w[k].range] =
                  <<"B:F", "A">> \o (IF id_value # << >> THEN <<"L">> ELSE << >>)
                                 \o (IF username # Null THEN <<"M">> ELSE << >>)
            /\ \A k \in DOMAIN w : w[k].option = IF k = 2 THEN "USER_ENTERED" ELSE "RAW"
            /\ \A fail \in 0..4 :
                  LET a == append_data(sheet, d.values, d.date, username, id_value, ro, fail)
                  IN  /\ a.row = row
                      /\ a.sheet = TrimRows(ApplyUpdates(sheet, SubSeq(w, 1, Before(fail))))
                      /\ a.ok <=> Before(fail) = Len(w)

C32_Witness ==
    /\ res.op = "append" /\ res.ok
    /\ res.row \in DOMAIN sheet
    /\ sheet[res.row].id = res.id
    /\ sheet[res.row].cells[1] = "01.03.2024"
    /\ sheet[res.row].cells[5] = "12.5"
    /\ sheet[res.row].author = "bob"
    /\ res.row < Len(sheet)

(* The rows whose id cell, stripped, is the stripped id. *)
CarryingRows(s, id_value) == {i \in DOMAIN s : Strip(s[i].id) = Strip(id_value)}

(* C37: after a delete that returned true for an id that one row carried,  *)
(* a second delete with the same id returns false and removes no row,      *)
(* whatever its remote calls answer.                                       *)
C37_SecondCancelRefused ==
    \A id_value \in TargetIds :
        LET first == delete_row_by_id(sheet, id_value, 0)
        IN  (first.ok /\ Cardinality(CarryingRows(sheet, id_value)) = 1) =>
              \A fail \in 0..3 :
                  LET second == delete_row_by_id(first.sheet, id_value, fail)
                  IN  ~second.ok /\ second.sheet = first.sheet

C37_Witness ==
    /\ res.op = "delete" /\ res.ok
    /\ CarryingRows(sheet, res.id) = {}
    /\ Len(sheet) >= 2
    /\ ~delete_row_by_id(sheet, res.id, 0).ok

-----------------------------------------------------------------------------
(* The same protocol against a sheet the bot set up itself: it holds the   *)
(* header row only, and nobody else writes to it.                          *)

InitFresh ==
    /\ data = EmptyStorage
    /\ nextToken = 1
    /\ mintedAuth = {}
    /\ last = NoCmd
    /\ cascade = {}
    /\ sheet = <<HeaderRow>>
    /\ clock = 1
    /\ res = NoRes
    /\ book = NoBook
    /\ done = {}
    /\ draft = NoDraft
    /\ verdict = NoVerdict
    /\ file = NoFile
    /\ procs = NoProcs
    /\ cls = NoCls
    /\ shelf = NoShelf

(* Every remote write and delete succeeds; a read may fail, which neither  *)
(* append_data nor its caller can tell from a read that answered.          *)
FreshDrafts ==
    {[values |-> <<"Mar", "Food", c, a, "USD">>, date |-> "01.03.2024", username |-> "bob"] :
        c \in {Null, "lunch"}, a \in {"12.5", "7"}}

NextFresh ==
    \/ \E d \in FreshDrafts, ro \in ReadOutcomes : AppendData(d, ro, 0)
    \/ \E id_value \in TargetIds : DeleteRowById(id_value, 0)

SpecFresh == InitFresh /\ [][NextFresh]_vars

(* C33: from a sheet that holds only the header row, after any appends and *)
(* deletes that returned success no row without an amount lies above a row *)
(* with an amount.                                                         *)
C33_NoGaps ==
    \A i \in DOMAIN sheet : \A j \in DOMAIN sheet :
        (i < j /\ sheet[j].cells[5] # "") => sheet[i].cells[5] # ""

-----------------------------------------------------------------------------
(* Properties of the ledger under SpecSheet *)

RowCount(s) == Len(ValuesAF(s))

AmountMissing(row) == Len(row) < 5 \/ row[5] = ""

AllAmounts(s) == \A i \in DOMAIN ValuesAF(s) : ~AmountMissing(ValuesAF(s)[i])

(* C8: get_next_row returns the index of the first row whose amount cell   *)
(* is empty or missing (also when the row has fewer than five cells), and  *)
(* the number of rows plus one when no row is such.                        *)
C8_FirstEmptyAmount ==
    LET rows == ValuesAF(sheet)
        E == {i \in DOMAIN rows : AmountMissing(rows[i])}
    IN  get_next_row(sheet, "ok") = IF E = {} THEN Len(rows) + 1 ELSE FirstIdx(E)

(* C9, as stated: from every sheet, a successful append followed by a      *)
(* successful delete of the minted id leaves the number of rows unchanged. *)
C9_RowCountUnchanged ==
    \A d \in Drafts :
        LET a == append_data(sheet, d.values, d.date, d.username, RowId(clock), "ok", 0)
            del == delete_row_by_id(a.sheet, RowId(clock), 0)
        IN  (a.ok /\ del.ok) => RowCount(del.sheet) = RowCount(sheet)

(* C9, amended: the round trip leaves the number of rows unchanged when    *)
(* the append wrote below the last row, which it does from every sheet     *)
(* whose rows all have an amount when its read of the sheet succeeds; when *)
(* the read succeeds and the append wrote into an existing row, the round  *)
(* trip leaves one row fewer.                                              *)
C9_RoundTrip ==
    \A d \in Drafts, ro \in ReadOutcomes :
        LET a == append_data(sheet, d.values, d.date, d.username, RowId(clock), ro, 0)
            del == delete_row_by_id(a.sheet, RowId(clock), 0)
            before == RowCount(sheet)
        IN  /\ a.ok /\ del.ok
            /\ a.row > before => RowCount(del.sheet) = before
            /\ (ro = "ok" /\ a.row <= before) => RowCount(del.sheet) = before - 1
            /\ (AllAmounts(sheet) /\ ro = "ok") => a.row = before + 1

C9_Witness ==
    /\ res.op = "delete" /\ res.ok
    /\ \E n \in 1..MaxClock : res.id = RowId(n)
    /\ AllAmounts(sheet)
    /\ RowCount(sheet) >= 2

(* C10: a delete that finds the id removes exactly the first row whose id  *)
(* cell, stripped, equals the stripped target, and returns true; every     *)
(* other row keeps its content, the rows below moving up by one.  A delete *)
(* that returns false removes nothing.                                     *)
C10_DeletesFirstMatch ==
    \A id_value \in TargetIds, fail \in 0..3 :
        LET r == delete_row_by_id(sheet, id_value, fail)
            M == {i \in DOMAIN sheet : Strip(sheet[i].id) = Strip(id_value)}
            k == FirstIdx(M)
        IN  /\ r.ok <=> (M # {} /\ fail = 0)
            /\ ~r.ok => r.sheet = sheet
            /\ r.ok =>
                  \A j \in 1..Len(sheet) :
                      RowAt(r.sheet, j) = IF j < k THEN sheet[j] ELSE RowAt(sheet, j + 1)

C10_Witness ==
    /\ res.op = "delete" /\ res.ok
    /\ res.row <= Len(sheet)
    /\ \E i \in DOMAIN sheet : i >= res.row /\ Strip(sheet[i].id) = Strip(res.id)

-----------------------------------------------------------------------------
(* The validator of transaction_processor.py.  A draft is a dict: a         *)
(* function from the keys it has to their values.  A value is a string or  *)
(* Null (None).  The conversions the validator applies (str.lower, len,    *)
(* datetime.strptime, float) are given by what they return on each string  *)
(* of the model's universe.                                                *)

required_fields_short == <<"type", "date", "month", "category", "amount", "currency">>

required_fields == <<"type", "date", "month", "category", "comment", "amount", "currency">>

(* str.lower() *)
lower(t) == IF t = "Expense" THEN "expense" ELSE IF t = "INCOME" THEN "income" ELSE t

(* len() of a string *)
len(c) ==
    CASE c = "" -> 0
      [] c = "US" -> 2
      [] c \in {"USD", "usd", "EUR"} -> 3
      [] c = "EURO" -> 4

(* The year, month and day fields "%Y-%m-%d" matches in a string; << >>    *)
(* when the string does not match the format.                              *)
MatchYmd(t) ==
    CASE t \in {"2024-03-01", "2024-3-1"} -> <<2024, 3, 1>>
      [] t = "2024-02-29" -> <<2024, 2, 29>>
      [] t = "2024-02-30" -> <<2024, 2, 30>>
      [] t = "2023-02-29" -> <<2023, 2, 29>>
      [] OTHER -> << >>

IsLeap(y) == (y % 4 = 0 /\ y % 100 # 0) \/ y % 400 = 0

DaysIn(y, m) ==
    IF m = 2 THEN (IF IsLeap(y) THEN 29 ELSE 28)
    ELSE IF m \in {4, 6, 9, 11} THEN 30 ELSE 31

(* datetime.strptime(t, "%Y-%m-%d"): a date, or the exception it raises.   *)
strptime(t) ==
    IF t = Null THEN [exc |-> "TypeError", ymd |-> << >>]
    ELSE LET f == MatchYmd(t)
         IN  IF f = << >> THEN [exc |-> "ValueError", ymd |-> << >>]
             ELSE IF f[2] \in 1..12 /\ f[3] \in 1..DaysIn(f[1], f[2])
             THEN [exc |-> "", ymd |-> f]
             ELSE [exc |-> "ValueError", ymd |-> << >>]

(* dt.strftime("%d.%m.%Y") *)
strftime(ymd) ==
    CASE ymd = <<2024, 3, 1>> -> "01.03.2024"
      [] ymd = <<2024, 2, 29>> -> "29.02.2024"

float_int_only(a) ==
    CASE a = Null -> [exc |-> "TypeError", nan |-> FALSE, tenths |-> 0]
      [] a = "7" -> [exc |-> "", nan |-> FALSE, tenths |-> 70]
      [] a = "0" -> [exc |-> "", nan |-> FALSE, tenths |-> 0]
      [] a = "-3" -> [exc |-> "", nan |-> FALSE, tenths |-> -30]
      [] OTHER -> [exc |-> "ValueError", nan |-> FALSE, tenths |-> 0]

(* float(a): the number in tenths, not-a-number, or the exception raised.  *)
(* An amount is a number or its text; both convert alike.                  *)
float(a) ==
    CASE a = Null -> [exc |-> "TypeError", nan |-> FALSE, tenths |-> 0]
      [] a = "12.5" -> [exc |-> "", nan |-> FALSE, tenths |-> 125]
      [] a = "7" -> [exc |-> "", nan |-> FALSE, tenths |-> 70]
      [] a = "0" -> [exc |-> "", nan |-> FALSE, tenths |-> 0]
      [] a = "-3" -> [exc |-> "", nan |-> FALSE, tenths |-> -30]
      [] a = "nan" -> [exc |-> "", nan |-> TRUE, tenths |-> 0]
      [] OTHER -> [exc |-> "ValueError", nan |-> FALSE, tenths |-> 0]

(* What _validate_transaction gives: {"valid": True}, {"valid": False,     *)
(* "error": ...}, or an exception that leaves the method.                  *)
Valid == [kind |-> "valid", error |-> << >>]

Invalid(e) == [kind |-> "invalid", error |-> e]

Raises(e) == [kind |-> "raises", error |-> <<e>>]

(* The first required field, in the order of the list, the draft lacks.    *)
FirstMissing(d) ==
    LET M == {i \in DOMAIN required_fields : required_fields[i] \notin DOMAIN d}
    IN  IF M = {} THEN Null ELSE required_fields[FirstIdx(M)]

_validate_transaction(d) ==
    IF FirstMissing(d) # Null THEN Invalid(<<"Missing required field", FirstMissing(d)>>)
    ELSE IF d.type = Null THEN Raises("AttributeError")
    ELSE IF lower(d.type) \notin {"income", "expense"}
    THEN Invalid(<<"Invalid transaction type", lower(d.type)>>)
    ELSE IF strptime(d.date).exc = "TypeError" THEN Raises("TypeError")
    ELSE IF strptime(d.date).exc = "ValueError" THEN Invalid(<<"Invalid date format">>)
    ELSE IF float(d.amount).exc = "TypeError" THEN Raises("TypeError")
    ELSE IF float(d.amount).exc = "ValueError" THEN Invalid(<<"Invalid amount">>)
    ELSE IF ~float(d.amount).nan /\ float(d.amount).tenths <= 0
    THEN Invalid(<<"Amount must be greater than 0">>)
    ELSE IF d.currency = Null \/ d.currency = "" \/ len(d.currency) # 3
    THEN Invalid(<<"Invalid currency">>)
    ELSE Valid

-----------------------------------------------------------------------------
(* The validator applied to a draft: any dict a caller can hand over.      *)

VTypes == {"income", "expense", "Expense", "transfer", Null}

VDates == {"2024-03-01", "2024-3-1", "2024-02-30", "2023-02-29", "01.03.2024", "", Null}

VAmounts == {"12.5", "7", "0", "-3", "abc", "", "nan", Null}

VCurrencies == {"USD", "usd", "US", "EURO", "", Null}

VCategories == {"Food", "Pets", Null}

VComments == {"lunch", Null}

VMonths == {"Mar", Null}

FullDrafts ==
    {[type |-> t, date |-> dt, month |-> m, category |-> cat, comment |-> com,
      amount |-> a, currency |-> cur] :
        t \in VTypes, dt \in VDates, m \in VMonths, cat \in VCategories,
        com \in VComments, a \in VAmounts, cur \in VCurrencies}

BaseDraft ==
    [type |-> "expense", date |-> "2024-03-01", month |-> "Mar", category |-> "Food",
     comment |-> "lunch", amount |-> "12.5", currency |-> "USD"]

(* A dict with only the keys K of d. *)
Restrict(d, K) == [f \in K |-> d[f]]

PartialDrafts ==
    {Restrict(b, K) : b \in {BaseDraft, [BaseDraft EXCEPT !.type = "transfer", !.amount = Null]},
                      K \in (SUBSET DOMAIN BaseDraft) \ {DOMAIN BaseDraft}}

ValidateDrafts == FullDrafts \cup PartialDrafts

Validate ==
    /\ verdict = NoVerdict
    /\ verdict' = _validate_transaction(draft)
    /\ UNCHANGED <<draft, dirVars, sheetVars, bookVars, raceVars, classifyVars, shelfVars>>

InitValidate ==
    /\ data = EmptyStorage
    /\ nextToken = 1
    /\ mintedAuth = {}
    /\ last = NoCmd
    /\ cascade = {}
    /\ sheet = << >>
    /\ clock = 1
    /\ res = NoRes
    /\ book = NoBook
    /\ done = {}
    /\ draft \in ValidateDrafts
    /\ verdict = NoVerdict
    /\ file = NoFile
    /\ procs = NoProcs
    /\ cls = NoCls
    /\ shelf = NoShelf

NextValidate == Validate

SpecValidate == InitValidate /\ [][NextValidate]_vars

-----------------------------------------------------------------------------
(* Properties of the validator under SpecValidate *)

(* The fields the validator is to require. *)
Required == {"type", "date", "month", "category", "comment", "amount", "currency"}

Missing(d) == Required \ DOMAIN d

(* The dates of the universe written as YYYY-MM-DD, the amounts greater    *)
(* than zero and the currencies of three characters.                       *)
IsoDates == {"2024-03-01"}

PositiveAmounts == {"12.5", "7"}

ThreeChars == {"USD", "usd"}

(* C15: a draft with every required field, a type of income or expense, a  *)
(* YYYY-MM-DD date, an amount above zero and a currency of three           *)
(* characters is valid, whatever its category.                             *)
C15_ValidWhateverCategory ==
    (/\ verdict # NoVerdict
     /\ Missing(draft) = {}
     /\ draft.type \in {"income", "expense"}
     /\ draft.date \in IsoDates
     /\ draft.amount \in PositiveAmounts
     /\ draft.currency \in ThreeChars) => verdict = Valid

C15_Witness ==
    /\ verdict = Valid
    /\ Missing(draft) = {}
    /\ draft.type = "income" /\ draft.date \in IsoDates /\ draft.amount = "12.5"
    /\ draft.currency \in ThreeChars
    /\ draft.category = Null

(* C16: a draft that lacks a required field is invalid, with a reason that *)
(* names a field it lacks.                                                 *)
C16_MissingFieldNamed ==
    (verdict # NoVerdict /\ Missing(draft) # {}) =>
        /\ verdict.kind = "invalid"
        /\ Len(verdict.error) = 2
        /\ verdict.error[1] = "Missing required field"
        /\ verdict.error[2] \in Missing(draft)

C16_Witness ==
    /\ verdict.kind = "invalid"
    /\ Cardinality(Missing(draft)) >= 2
    /\ "type" \in DOMAIN draft
    /\ "amount" \in DOMAIN draft /\ draft.amount = Null

(* C17: a draft with every required field whose amount is not a number     *)
(* above zero (zero, negative, text, null) gets an invalid verdict as a    *)
(* value; the validator does not raise.  The other fields are taken valid, *)
(* so that the verdict is about the amount.                                *)
C17_BadAmountInvalid ==
    (/\ verdict # NoVerdict
     /\ Missing(draft) = {}
     /\ draft.type \in {"income", "expense"}
     /\ draft.date \in IsoDates
     /\ draft.currency \in ThreeChars
     /\ draft.amount \in {"0", "-3", "abc", "", Null}) => verdict.kind = "invalid"

-----------------------------------------------------------------------------
(* The transaction pipeline: handle_message / handle_audio_message ->      *)
(* process_transaction -> append_data, and the cancel button ->            *)
(* delete_row_by_id, against the two sheets of one group's spreadsheet.    *)

(* Config.income_sheet_name and Config.expense_sheet_name (the names come  *)
(* from the environment).                                                  *)
income_sheet_name == "income_sheet"

expense_sheet_name == "expense_sheet"

SheetNames == {income_sheet_name, expense_sheet_name}

get_sheet_name_swapped(transaction_type) ==
    IF lower(transaction_type) = "income" THEN expense_sheet_name ELSE income_sheet_name

(* Config.get_sheet_name; the ValueError branch is not reached with a type *)
(* the validator accepted.                                                 *)
get_sheet_name(transaction_type) ==
    IF lower(transaction_type) = "income" THEN income_sheet_name ELSE expense_sheet_name

(* What a remote write raises when it fails: HttpError, which append_data  *)
(* answers with False, or another exception, which leaves append_data and  *)
(* is caught by process_transaction.                                       *)
WriteExceptions == {"http", "other"}

Failure(b, e) ==
    [success |-> FALSE, sheet_name |-> "", row_id |-> << >>, row |-> 0, error |-> e, book |-> b]

process_transaction_writes_first(b, d, now, ro, fail, exc) ==
    LET v == _validate_transaction(d)
        a == append_data(b[expense_sheet_name], <<"Mar", "Food", Null, "0", "USD">>,
                         "01.03.2024", "Unknown", RowId(now), ro, fail)
    IN  IF v.kind = "raises" THEN Failure(b, <<"Error processing transaction">> \o v.error)
        ELSE Failure([b EXCEPT ![expense_sheet_name] = a.sheet], v.error)

(* process_transaction on the spreadsheet b at time now.  ro is the        *)
(* outcome of the read in get_next_row, fail the write of append_data that *)
(* fails (0 for none) and exc what it raises.                              *)
process_transaction(b, d, now, ro, fail, exc) ==
    LET v == _validate_transaction(d)
    IN  IF v.kind = "raises" THEN Failure(b, <<"Error processing transaction">> \o v.error)
        ELSE IF v.kind = "invalid" THEN Failure(b, v.error)
        ELSE
          LET sheet_name == get_sheet_name(lower(d.type))
              dt == strptime(d.date)
              date_cell == IF dt.exc = "" THEN strftime(dt.ymd) ELSE d.date
              row_data == <<d.month, d.category, d.comment, d.amount, d.currency>>
              username == IF "username" \in DOMAIN d THEN d.username ELSE "Unknown"
              a == append_data(b[sheet_name], row_data, date_cell, username, RowId(now), ro, fail)
              b1 == [b EXCEPT ![sheet_name] = a.sheet]
          IN  IF a.ok
              THEN [success |-> TRUE, sheet_name |-> sheet_name, row_id |-> RowId(now),
                    row |-> a.row, error |-> << >>, book |-> b1]
              ELSE IF exc = "http"
              THEN [Failure(b1, <<"Failed to add transaction to sheet", sheet_name>>)
                        EXCEPT !.row = a.row]
              ELSE [Failure(b1, <<"Error processing transaction", "Exception">>)
                        EXCEPT !.row = a.row]

(* bool(v) of a string or None *)
TruthyAlways(v) == TRUE

Truthy(v) == v # Null /\ v # ""

(* user.username or f"user_{user.id}" *)
UserName(u) == "user_" \o ToString(u)

(* The dict _classify_finance_text returns for the model's answer d (every *)
(* key set, username added). *)
Classified(d, u) ==
    [f \in DOMAIN d \cup {"username"} |-> IF f = "username" THEN UserName(u) ELSE d[f]]

(* The part handle_message and handle_audio_message share, from the check  *)
(* of type and category on.  unclassified is the status a draft without    *)
(* type or category ends with.                                             *)
HandleResult(b, dat, u, result, now, ro, fail, exc, unclassified) ==
    IF Truthy(result.type) /\ Truthy(result.category)
    THEN IF _user_group_id(dat, u) = None
         THEN [Failure(b, << >>) EXCEPT !.error = <<"no_group">>]
         ELSE IF ResolveLedger(dat, u) = None
         THEN [Failure(b, << >>) EXCEPT !.error = <<"no_spreadsheet">>]
         ELSE process_transaction(b, result, now, ro, fail, exc)
    ELSE [Failure(b, << >>) EXCEPT !.error = <<unclassified>>]

(* handle_message: a text message of user u that the classifier answers    *)
(* with d.  Without type or category no status is set and building the     *)
(* reply raises KeyError: the user gets the error reply.                   *)
handle_message(b, dat, u, d, now, ro, fail, exc) ==
    IF ~_user_in_group(dat, u) THEN [Failure(b, << >>) EXCEPT !.error = <<"group_required">>]
    ELSE HandleResult(b, dat, u, Classified(d, u), now, ro, fail, exc, "KeyError")

handle_audio_message(b, dat, u, d, now, ro, fail, exc) ==
    IF ~_user_in_group(dat, u) THEN [Failure(b, << >>) EXCEPT !.error = <<"group_required">>]
    ELSE HandleResult(b, dat, u, Classified(d, u), now, ro, fail, exc, "not_classified")

(* handle_callback, "cancel|sheet_name|row_id". *)
handle_callback(b, dat, u, sheet_name, row_id, fail) ==
    IF _user_group_id(dat, u) = None \/ ResolveLedger(dat, u) = None
    THEN [ok |-> FALSE, row |-> 0, book |-> b]
    ELSE LET r == delete_row_by_id(b[sheet_name], row_id, fail)
         IN  [ok |-> r.ok, row |-> r.row, book |-> [b EXCEPT ![sheet_name] = r.sheet]]

-----------------------------------------------------------------------------
(* The bot handling messages and cancel clicks of the users of one group.  *)
(* book is the group's spreadsheet: its two sheets, as _initialize_sheets  *)
(* made them and an earlier run may have filled them (for sheets that      *)
(* exist the constructor of TransactionProcessor changes nothing).  done is a history variable: the *)
(* transactions reported as added, each with the sheet name and row id of  *)
(* its cancel button, the draft it was made from and whether a cancel of   *)
(* it has succeeded.  res is a history variable: the outcome of the last   *)
(* message that reached the ledger or ended unclassified, or of the last   *)
(* cancel click.                                                           *)

MaxTx == 1

(* The directory after: the administrator mints a code, user 2 redeems it, *)
(* the administrator creates a group on spreadsheet 1, user 2 joins it.    *)
LedgerData ==
    LET d1 == auth_command(EmptyStorage, 1, 1, << >>).data
        d2 == auth_command(d1, 2, 2, <<1>>).data
        d3 == create_group_command(d2, 2, 1, <<[kind |-> "url", id |-> 1]>>).data
    IN  join_command(d3, 2, <<3>>).data

(* A transaction an earlier run of the bot wrote. *)
EarlierRow ==
    [cells |-> <<"29.02.2024", "Feb", "Food", "tea", "3", "EUR">>, id |-> Seen, author |-> "ann"]

(* The result handle_message builds itself when the classifier gives none. *)
FallbackResult ==
    [type |-> Null, date |-> "2024-03-01", month |-> Null, category |-> Null,
     comment |-> Null, amount |-> Null, currency |-> Null]

(* What the classifier answers, after the defaults are set. *)
LedgerDrafts ==
    {BaseDraft,
     [BaseDraft EXCEPT !.type = "income", !.comment = Null, !.amount = "7"],
     [BaseDraft EXCEPT !.type = Null],
     [BaseDraft EXCEPT !.category = Null],
     [BaseDraft EXCEPT !.category = ""],
     [BaseDraft EXCEPT !.amount = Null],
     [BaseDraft EXCEPT !.amount = "0"],
     FallbackResult}

(* The status the reply shows: added, failed at a remote write, rejected   *)
(* by the validator, or what the handler ended with before that.           *)
Status(r) ==
    IF r.success THEN "added"
    ELSE IF r.row > 0 THEN "failed"
    ELSE IF r.error[1] \in {"KeyError", "not_classified", "group_required",
                            "no_group", "no_spreadsheet"} THEN r.error[1]
    ELSE "rejected"

Outcome(op, r) ==
    [op |-> op, ok |-> r.success, row |-> r.row, id |-> r.row_id,
     sheet_name |-> r.sheet_name, status |-> Status(r)]

Handled(op, u, d, r) ==
    /\ book' = r.book
    /\ done' = IF r.success
               THEN done \cup {[row_id |-> r.row_id, sheet_name |-> r.sheet_name,
                                draft |-> Classified(d, u), cancelled |-> FALSE]}
               ELSE done
    /\ clock' = IF r.row > 0 THEN clock + 1 ELSE clock
    /\ res' = IF Status(r) \in {"rejected", "group_required"} THEN res ELSE Outcome(op, r)
    /\ UNCHANGED <<sheet, dirVars, validateVars, raceVars, classifyVars, shelfVars>>

HandleMessage(u, d, ro, fail, exc) ==
    /\ clock <= MaxTx
    /\ Handled("message", u, d, handle_message(book, data, u, d, clock, ro, fail, exc))

HandleAudioMessage(u, d, ro, fail, exc) ==
    /\ clock <= MaxTx
    /\ Handled("message", u, d, handle_audio_message(book, data, u, d, clock, ro, fail, exc))

(* A click on the cancel button of a transaction reported as added.  The   *)
(* button can be clicked again before the message is edited.               *)
HandleCallback(u, t, fail) ==
    LET r == handle_callback(book, data, u, t.sheet_name, t.row_id, fail)
    IN  /\ book' = r.book
        /\ done' = IF r.ok THEN (done \ {t}) \cup {[t EXCEPT !.cancelled = TRUE]} ELSE done
        /\ res' = [op |-> "cancel", ok |-> r.ok, row |-> r.row, id |-> t.row_id,
                   sheet_name |-> t.sheet_name, status |-> ""]
        /\ UNCHANGED <<sheet, clock, dirVars, validateVars, raceVars, classifyVars, shelfVars>>

InitLedger ==
    /\ data = LedgerData
    /\ nextToken = 4
    /\ mintedAuth = {1}
    /\ last = NoCmd
    /\ cascade = {}
    /\ sheet = << >>
    /\ clock = 1
    /\ res = NoRes
    /\ book \in [SheetNames -> {<<HeaderRow>>, <<HeaderRow, EarlierRow>>}]
    /\ done = {}
    /\ draft = NoDraft
    /\ verdict = NoVerdict
    /\ file = NoFile
    /\ procs = NoProcs
    /\ cls = NoCls
    /\ shelf = NoShelf

(* The outcomes of the remote calls of one message: of the read, and of    *)
(* the writes (which write fails, and with what).  A message that makes no *)
(* remote call has one outcome.                                            *)
Faults(d) ==
    IF Truthy(d.type) /\ Truthy(d.category) /\ _validate_transaction(d) = Valid
    THEN {<<ro, 0, "http">> : ro \in ReadOutcomes}
         \cup {<<ro, fail, exc>> : ro \in ReadOutcomes, fail \in 1..4, exc \in WriteExceptions}
    ELSE {<<"ok", 0, "http">>}

NextLedger ==
    \/ \E u \in Users, d \in LedgerDrafts : \E f \in Faults(d) :
          HandleMessage(u, d, f[1], f[2], f[3])
    \/ \E u \in Users, d \in LedgerDrafts : \E f \in Faults(d) :
          HandleAudioMessage(u, d, f[1], f[2], f[3])
    \/ \E u \in Users, t \in done, fail \in 0..3 : HandleCallback(u, t, fail)

SpecLedger == InitLedger /\ [][NextLedger]_vars

-----------------------------------------------------------------------------
(* Properties of the pipeline under SpecLedger *)

Members == {u \in Users : _user_in_group(data, u)}

(* The rows of a sheet whose id cell, stripped, is the stripped id. *)
Carrying(s, id) == {i \in DOMAIN s : Strip(s[i].id) = Strip(id)}

(* The drafts the validator accepts, and the sheet each belongs to. *)
WritingDrafts == {d \in LedgerDrafts : d.type \in {"income", "expense"} /\ d.amount \in PositiveAmounts}

SheetFor(d) == IF d.type = "income" THEN "income_sheet" ELSE "expense_sheet"

(* What a row written for draft d into empty cells shows. *)
Shown(v) == IF v = Null THEN "" ELSE v

DisplayDate(t) == IF t = "2024-03-01" THEN "01.03.2024" ELSE t

ShownCells(d) ==
    <<DisplayDate(d.date), Shown(d.month), Shown(d.category), Shown(d.comment),
      d.amount, d.currency>>

(* C11: a delete with an id that no row of the sheet carries returns false *)
(* and leaves the sheet as it is; the cancel click answers the same way.   *)
C11_NoMatchReturnsFalse ==
    \A n \in SheetNames, id \in {RowId(k) : k \in 1..(MaxTx + 1)} \cup {Seen, <<8>>}, fail \in 0..3 :
        Carrying(book[n], id) = {} =>
            /\ ~delete_row_by_id(book[n], id, fail).ok
            /\ delete_row_by_id(book[n], id, fail).sheet = book[n]
            /\ \A u \in Users :
                  /\ ~handle_callback(book, data, u, n, id, fail).ok
                  /\ handle_callback(book, data, u, n, id, fail).book = book

C11_Witness ==
    /\ res.op = "cancel" /\ ~res.ok
    /\ Carrying(book[res.sheet_name], res.id) = {}
    /\ \E t \in done : t.row_id = res.id /\ t.cancelled
    /\ Len(book[res.sheet_name]) >= 2

(* What the ledger holds for the transaction t of done: exactly one row of *)
(* its sheet carries its id, and that row shows its own data and author.   *)
RecordedOnce(b, t) ==
    /\ Cardinality({i \in DOMAIN b[t.sheet_name] : b[t.sheet_name][i].id = t.row_id}) = 1
    /\ \A i \in DOMAIN b[t.sheet_name] :
          b[t.sheet_name][i].id = t.row_id =>
              /\ b[t.sheet_name][i].cells = ShownCells(t.draft)
              /\ b[t.sheet_name][i].author = t.draft.username

(* C12: every transaction reported as added and not cancelled has exactly  *)
(* one row carrying its id with its own data, now and after any further    *)
(* message is handled: none is lost, overwritten or recorded twice.        *)
C12_EveryAddedRecordedOnce ==
    \A t \in done :
        ~t.cancelled =>
            /\ RecordedOnce(book, t)
            /\ \A u \in Members, d \in WritingDrafts, ro \in ReadOutcomes :
                  RecordedOnce(handle_message(book, data, u, d, clock, ro, 0, "http").book, t)

(* C13: a row that an append wrote (it carries an id) shows the same cells *)
(* after any later append, whatever read or write of that append fails.    *)
C13_WrittenCellsKept ==
    \A n \in SheetNames :
      \A i \in DOMAIN book[n] :
        book[n][i].id # << >> =>
            \A u \in Members, d \in WritingDrafts, ro \in ReadOutcomes,
               fail \in 0..4, exc \in WriteExceptions :
                LET after == process_transaction(book, Classified(d, u), clock, ro, fail, exc).book
                IN  RowAt(after[n], i).cells = book[n][i].cells

(* The values of draft d in column order A..F, as the writes carry them. *)
ColumnValues(d) == <<d.date, d.month, d.category, d.comment, d.amount, d.currency>>

(* C14: when write number fail of an append fails (1 B:F, 2 A, 3 L, 4 M),  *)
(* process_transaction returns failure, the writes before it stay in the   *)
(* row, the failed write and those after it leave no trace, and no other   *)
(* row changes.                                                            *)
C14_FailedWriteStopsAppend ==
    \A u \in Members, d \in WritingDrafts, ro \in ReadOutcomes,
       fail \in 1..4, exc \in WriteExceptions :
        LET n == SheetFor(d)
            row == get_next_row(book[n], ro)
            old == RowAt(book[n], row)
            r == process_transaction(book, Classified(d, u), clock, ro, fail, exc)
            new == RowAt(r.book[n], row)
        IN  /\ ~r.success
            /\ \A m \in SheetNames \ {n} : r.book[m] = book[m]
            /\ \A j \in 1..(Len(book[n]) + 2) :
                  j # row => RowAt(r.book[n], j) = RowAt(book[n], j)
            /\ new.author = old.author
            /\ new.id = IF fail >= 4 THEN RowId(clock) ELSE old.id
            /\ new.cells[1] = IF fail >= 3 THEN DisplayDate(d.date) ELSE old.cells[1]
            /\ \A k \in 2..6 :
                  new.cells[k] = IF fail >= 2 /\ ColumnValues(d)[k] # Null
                                 THEN ColumnValues(d)[k] ELSE old.cells[k]

C14_Witness ==
    /\ res.op = "message" /\ res.status = "failed" /\ res.row = 2
    /\ \E n \in SheetNames :
          /\ RowAt(book[n], 2).cells[5] \in PositiveAmounts
          /\ RowAt(book[n], 2).id = << >>
          /\ RowAt(book[n], 2).author = ""

(* C18: after process_transaction reports success with a sheet name and an *)
(* id, the delete by that sheet name and id (its remote calls succeeding)  *)
(* returns true and removes exactly the row process_transaction wrote: the *)
(* rows above it stay and the rows below it move up by one.  The cancel    *)
(* click of a member does the same.                                        *)
C18_AddedThenDeleted ==
    \A u \in Members, d \in WritingDrafts, ro \in ReadOutcomes :
        LET r == process_transaction(book, Classified(d, u), clock, ro, 0, "http")
        IN  r.success =>
              LET n == r.sheet_name
                  del == delete_row_by_id(r.book[n], r.row_id, 0)
                  cb == handle_callback(r.book, data, u, n, r.row_id, 0)
              IN  /\ r.book[n][r.row].id = r.row_id
                  /\ del.ok /\ del.row = r.row
                  /\ \A j \in 1..Len(r.book[n]) :
                        RowAt(del.sheet, j) =
                            IF j < r.row THEN r.book[n][j] ELSE RowAt(r.book[n], j + 1)
                  /\ cb.ok /\ cb.book = [r.book EXCEPT ![n] = del.sheet]

C18_Witness ==
    /\ res.op = "cancel" /\ res.ok /\ res.row = 3
    /\ \E t \in done : t.cancelled /\ t.row_id = res.id /\ t.sheet_name = res.sheet_name
    /\ book[res.sheet_name] = <<HeaderRow, EarlierRow>>

(* C19: a valid draft processed, without remote failure, against a sheet   *)
(* that holds only the header row: process_transaction succeeds, names the *)
(* sheet of the draft's type, and row 2 of that sheet holds the display    *)
(* date, month, category, comment, amount and currency in columns A..F,    *)
(* the returned id in L and the author in M; the other sheet is untouched. *)
C19_FirstRowOfHeaderOnlySheet ==
    \A u \in Members, d \in WritingDrafts :
        book[SheetFor(d)] = <<HeaderRow>> =>
            LET r == process_transaction(book, Classified(d, u), clock, "ok", 0, "http")
            IN  /\ r.success
                /\ r.sheet_name = SheetFor(d)
                /\ r.row_id = RowId(clock)
                /\ r.book[SheetFor(d)] =
                      <<HeaderRow,
                        [cells |-> ShownCells(d), id |-> r.row_id, author |-> UserName(u)]>>
                /\ \A m \in SheetNames \ {SheetFor(d)} : r.book[m] = book[m]

C19_Witness ==
    /\ res.op = "message" /\ res.status = "added" /\ res.row = 2
    /\ res.sheet_name = "income_sheet"
    /\ Len(book["income_sheet"]) = 2
    /\ book["income_sheet"][1] = HeaderRow
    /\ book["income_sheet"][2].cells = <<"01.03.2024", "Mar", "Food", "", "7", "USD">>
    /\ book["income_sheet"][2].id = res.id
    /\ book["income_sheet"][2].author \in {UserName(u) : u \in Members}

(* C20: a message whose classified draft has a null type or a null         *)
(* category, text or voice, ends without a transaction and leaves every    *)
(* sheet of the ledger as it was, whatever the remote calls would answer.  *)
C20_UnclassifiedNoWrite ==
    \A u \in Users, d \in LedgerDrafts :
        (d.type = Null \/ d.category = Null) =>
            \A ro \in ReadOutcomes, fail \in 0..4, exc \in WriteExceptions :
                /\ ~handle_message(book, data, u, d, clock, ro, fail, exc).success
                /\ handle_message(book, data, u, d, clock, ro, fail, exc).book = book
                /\ ~handle_audio_message(book, data, u, d, clock, ro, fail, exc).success
                /\ handle_audio_message(book, data, u, d, clock, ro, fail, exc).book = book

C20_Witness ==
    /\ res.op = "message" /\ res.status \in {"KeyError", "not_classified"}
    /\ ~res.ok /\ res.row = 0
    /\ done = {}
    /\ \A n \in SheetNames : book[n] \in {<<HeaderRow>>, <<HeaderRow, EarlierRow>>}

(* Drafts the validator rejects: a type that is no sheet's, a day that     *)
(* does not exist, an amount of zero, below zero or of text, a currency of *)
(* two letters, and a draft without currency.                              *)
RejectedDrafts ==
    {[BaseDraft EXCEPT !.type = "transfer"],
     [BaseDraft EXCEPT !.date = "2024-02-30"],
     [BaseDraft EXCEPT !.amount = "0"],
     [BaseDraft EXCEPT !.amount = "-3"],
     [BaseDraft EXCEPT !.amount = "abc"],
     [BaseDraft EXCEPT !.currency = "US"],
     Restrict(BaseDraft, DOMAIN BaseDraft \ {"currency"})}

(* C34: process_transaction on a draft the validator rejects returns a     *)
(* failure whose error is the validator's reason and leaves every sheet as *)
(* it is; what the reads and writes of the spreadsheet would answer makes  *)
(* no difference, for none is issued.                                      *)
C34_RejectedDraftNoAccess ==
    \A d \in RejectedDrafts :
        LET v == _validate_transaction(d)
        IN  /\ v.kind = "invalid"
            /\ \A ro \in ReadOutcomes, fail \in 0..4, exc \in WriteExceptions :
                  LET r == process_transaction(book, d, clock, ro, fail, exc)
                  IN  /\ ~r.success
                      /\ r.error = v.error
                      /\ r.row = 0
                      /\ r.book = book

C34_Witness ==
    /\ \E t \in done : ~t.cancelled /\ Carrying(book[t.sheet_name], t.row_id) # {}
    /\ LET r == process_transaction(book, [BaseDraft EXCEPT !.amount = "0"], clock, "ok", 0, "http")
       IN  /\ ~r.success
           /\ r.error = <<"Amount must be greater than 0">>
           /\ r.book = book

-----------------------------------------------------------------------------
(* Frame and refusal properties of the group directory under Spec *)

(* The document d with the group at index i replaced by g. *)
WithGroup(d, i, g) == [d EXCEPT !.groups[i] = g]

(* The codes a user can send: every token drawn so far, the next one and   *)
(* one beyond.                                                             *)
AnyCode == 1..(MaxTokens + 2)

C26_InviteCodeFrame ==
    \A u \in Users :
        LET gid == _user_group_id(data, u)
            i == GroupIdx(data, gid)
            r == _generate_invite_code(data, u, nextToken)
        IN  /\ gid = None =>
                  /\ r.code = None /\ r.data = data
                  /\ invite_command(data, nextToken, u).data = data
                  /\ invite_command(data, nextToken, u).reply = "need_group"
            /\ gid # None =>
                  /\ r.code = nextToken
                  /\ r.code # data.groups[i].invite_code
                  /\ r.data = WithGroup(data, i,
                         [gid |-> gid, owner_id |-> data.groups[i].owner_id,
                          members |-> data.groups[i].members,
                          invite_code |-> nextToken,
                          spreadsheet_id |-> data.groups[i].spreadsheet_id])
                  /\ invite_command(data, nextToken, u).data = r.data

C26_Witness ==
    /\ last.cmd = "invite" /\ last.reply = "invite_code"
    /\ Cardinality(data.groups[GroupIdx(data, _user_group_id(data, last.user))].members) >= 2
    /\ \E u \in Users : _user_group_id(data, u) = None
    /\ data.groups[GroupIdx(data, _user_group_id(data, last.user))].invite_code = last.arg

(* C27: /auth without a code from a user outside ADMIN_USER_IDS is         *)
(* answered "admins only" and leaves the document as it is; every code in  *)
(* the pending list was minted, and every minting was by an administrator. *)
C27_OnlyAdminsMint ==
    /\ \A u \in Users \ ADMIN_USER_IDS :
          /\ auth_command(data, nextToken, u, << >>).reply = "admins_only"
          /\ auth_command(data, nextToken, u, << >>).data = data
    /\ Range(data.auth_codes) \subseteq mintedAuth
    /\ last.reply = "minted" => last.cmd = "auth" /\ last.user \in ADMIN_USER_IDS

C27_Witness ==
    /\ last.cmd = "auth" /\ last.reply = "minted" /\ last.arg \in Range(data.auth_codes)
    /\ \E u \in Users \ ADMIN_USER_IDS : _is_authorised(data, u)

(* C28: _join_with_code with a code that is no group's invite code returns *)
(* false and leaves the whole document unchanged; /join answers "wrong     *)
(* invite code" or refuses earlier, and saves nothing.                     *)
C28_NoMatchNoJoin ==
    \A u \in Users, c \in AnyCode :
        (\A i \in DOMAIN data.groups : data.groups[i].invite_code # c) =>
            LET r == _join_with_code(data, u, c)
                o == join_command(data, u, <<c>>)
            IN  /\ ~r.ok
                /\ r.data = data
                /\ o.data = data
                /\ o.reply \in {"bad_invite_code", "not_authorised", "already_in_group"}

C28_Witness ==
    /\ Len(data.groups) >= 1
    /\ \E u \in Users, c \in Known :
          /\ LetIn(data, u) /\ ~_user_in_group(data, u)
          /\ c \in mintedAuth \cup {data.groups[i].gid : i \in DOMAIN data.groups}
          /\ join_command(data, u, <<c>>).reply = "bad_invite_code"

(* C31: _join_with_code does not look at the groups the user is in: for a  *)
(* member of one group and the invite code of another group it returns     *)
(* true, and the user is then a member of both.                            *)
C31_JoinIgnoresMembership ==
    \A u \in Users, c \in Tokens :
        LET hit == FirstIdx({j \in DOMAIN data.groups : data.groups[j].invite_code = c})
            r == _join_with_code(data, u, c)
        IN  (hit # 0 /\ GroupsOf(data, u) \ {hit} # {}) =>
              /\ r.ok
              /\ GroupsOf(r.data, u) = GroupsOf(data, u) \cup {hit}
              /\ Cardinality(GroupsOf(r.data, u)) >= 2

C31_Witness ==
    \E u \in Users : \E i \in DOMAIN data.groups : \E j \in DOMAIN data.groups :
        /\ i # j
        /\ u \in data.groups[i].members /\ u \notin data.groups[j].members
        /\ LET r == _join_with_code(data, u, data.groups[j].invite_code)
           IN  r.ok /\ GroupsOf(r.data, u) = {i, j}

(* The users who may join: let in and in no group. *)
Free(d) == {u \in Users : LetIn(d, u) /\ ~_user_in_group(d, u)}

(* C36: a /join does not use up the invite code: after a free user joined  *)
(* with a group's code, the group has the same code and another free user  *)
(* joins the same group with it.  After /invite replaced the code, nobody  *)
(* joins with the previous one.                                            *)
C36_InviteCodeReusable ==
    \A i \in DOMAIN data.groups :
        LET c == data.groups[i].invite_code
        IN  /\ \A u \in Free(data) :
                  LET r == join_command(data, u, <<c>>)
                  IN  /\ r.reply = "joined"
                      /\ r.data.groups[i].members = data.groups[i].members \cup {u}
                      /\ r.data.groups[i].invite_code = c
                      /\ \A v \in Free(r.data) :
                            LET q == join_command(r.data, v, <<c>>)
                            IN  /\ q.reply = "joined"
                                /\ q.data.groups[i].members =
                                       data.groups[i].members \cup {u, v}
            /\ \A m \in data.groups[i].members :
                  LET g == invite_command(data, nextToken, m)
                  IN  /\ g.reply = "invite_code"
                      /\ g.data.groups[i].invite_code = nextToken
                      /\ \A v \in Users :
                            /\ ~_join_with_code(g.data, v, c).ok
                            /\ join_command(g.data, v, <<c>>).data = g.data
                            /\ join_command(g.data, v, <<c>>).reply # "joined"

C36_Witness ==
    /\ last.cmd = "join" /\ last.reply = "joined"
    /\ \E i \in DOMAIN data.groups :
          /\ data.groups[i].invite_code = last.arg
          /\ Cardinality(data.groups[i].members \ {data.groups[i].owner_id}) >= 2

(* The same bot while few tokens have been drawn. *)
MaxFewTokens == 4

NextFew ==
    \/ \E u \in Users : \E a \in Args(Links(u)) :
          Create(u, a) /\ nextToken' <= MaxFewTokens + 1
    \/ \E u \in Users : Invite(u) /\ nextToken' <= MaxFewTokens + 1
    \/ \E u \in Users, a \in Args(Known) :
          Join(u, a) /\ nextToken' <= MaxFewTokens + 1
    \/ \E u \in Users, a \in Args(Known) :
          Auth(u, a) /\ nextToken' <= MaxFewTokens + 1
    \/ \E u \in Users : Leave(u) /\ nextToken' <= MaxFewTokens + 1

SpecFew == Init /\ [][NextFew]_vars

(* C38: no command takes an authorization away: a user who is recorded as  *)
(* the claimant of a code before a /create, /join, /leave, /invite or      *)
(* /auth of any user is recorded as one after it.                          *)
C38_AuthorisationKept ==
    [][\A u \in Users : _is_authorised(data, u) => _is_authorised(data', u)]_vars

C38_Witness ==
    /\ last.cmd = "leave" /\ last.reply = "group_deleted"
    /\ \E u \in cascade \ ADMIN_USER_IDS : _is_authorised(data, u)

-----------------------------------------------------------------------------
(* The bot of SpecLedger with the /leave command: the members of the group *)
(* send messages, click cancel buttons and leave.                          *)

NextLeave ==
    \/ NextLedger
    \/ \E u \in Users : Leave(u)

SpecLeave == InitLedger /\ [][NextLeave]_vars

(* C30: a /leave, of the owner (the group is deleted) or of another member *)
(* (the member is removed), leaves every row of every sheet of the group's *)
(* spreadsheet as it was.                                                  *)
C30_LeaveKeepsRows == [][\A u \in Users : Leave(u) => book' = book]_vars

C30_Witness ==
    /\ last.cmd = "leave" /\ last.reply = "group_deleted"
    /\ data.groups = << >>
    /\ cascade = {1}
    /\ \E t \in done : ~t.cancelled /\ Carrying(book[t.sheet_name], t.row_id) # {}
    /\ \E n \in SheetNames : book[n] = <<HeaderRow, EarlierRow>>

-----------------------------------------------------------------------------
(* Two callers on one storage file.  Inside one bot process the handlers   *)
(* run one after the other and none awaits between its load and its save;  *)
(* nothing in the code keeps a second process or thread off the file (no   *)
(* lock, no atomic replace), and then the steps of two operations          *)
(* interleave.  A caller's operation is two steps: the load, and the rest  *)
(* of the handler up to its save and reply, computed on the loaded         *)
(* document.  The loads a handler makes before its last one (the checks of *)
(* /join and /leave) are taken at the moment of the last load.             *)
(*                                                                         *)
(* file is the storage file: what json.loads makes of its text (kind), the *)
(* document last written to it (doc), and as history the caller that wrote *)
(* last (writer).  procs holds for each caller its position, its           *)
(* operation, the document it loaded (snapshot), what the file was when it *)
(* loaded (source) and who had written last then (seen), its reply,        *)
(* whether it saved and the document it saved (out).                       *)

Procs == {"p", "q"}

_load_storage_stale(f) == f.doc

(* _load_storage: {} when the text is unreadable or no JSON object. *)
_load_storage(f) == IF f.kind = "object" THEN f.doc ELSE EmptyStorage

_save_storage_merging(f, d) ==
    [f EXCEPT !.kind = "object",
              !.doc = IF f.kind = "object" /\ Len(f.doc.groups) = Len(d.groups)
                      THEN [d EXCEPT !.groups =
                               [i \in DOMAIN @ |->
                                   [@[i] EXCEPT !.members = @ \cup f.doc.groups[i].members]]]
                      ELSE d]

(* _save_storage: the whole text of the file is replaced. *)
_save_storage(f, d) == [f EXCEPT !.kind = "object", !.doc = d]

(* Documents the bot gets to: the administrator created a group (id 1,     *)
(* invite code 2) and minted the codes 3 and 4; users 2 and 3 redeemed     *)
(* them; user 2 joined the group.                                          *)
RaceDocs ==
    LET a1 == create_group_command(EmptyStorage, 1, 1, <<[kind |-> "url", id |-> 1]>>).data
        a2 == auth_command(a1, 3, 1, << >>).data
        a3 == auth_command(a2, 4, 1, << >>).data
        b1 == auth_command(a3, 5, 2, <<3>>).data
        b2 == auth_command(b1, 5, 3, <<4>>).data
        c1 == join_command(b2, 2, <<2>>).data
    IN  {a3, b2, c1}

RaceCodes == {2, 3}

(* The operations a caller can start. *)
RaceOps ==
    {[op |-> "auth", user |-> u, args |-> a] : u \in Users, a \in Args(RaceCodes)}
    \cup {[op |-> "join", user |-> u, args |-> <<c>>] : u \in Users, c \in RaceCodes}
    \cup {[op |-> "leave", user |-> u, args |-> << >>] : u \in Users}

(* The handler of operation o on the loaded document d. *)
Run(o, d, tok) ==
    CASE o.op = "auth" -> auth_command(d, tok, o.user, o.args)
      [] o.op = "join" -> join_command(d, o.user, o.args)
      [] o.op = "leave" -> leave_command(d, o.user)

(* The replies of the paths that call _save_storage. *)
Saves(reply) == reply \in {"authorised", "minted", "joined", "left", "group_deleted"}

NoOp == [op |-> "", user |-> None, args |-> << >>]

Idle ==
    [pc |-> "idle", op |-> NoOp, snapshot |-> EmptyStorage, source |-> "", seen |-> "",
     reply |-> "", saved |-> FALSE, out |-> EmptyStorage]

Load(p, o) ==
    /\ procs[p].pc = "idle"
    /\ procs' = [procs EXCEPT ![p] =
                    [Idle EXCEPT !.pc = "loaded", !.op = o,
                                 !.snapshot = _load_storage(file),
                                 !.source = file.kind, !.seen = file.writer]]
    /\ UNCHANGED <<file, data, nextToken, mintedAuth, last, cascade>>
    /\ UNCHANGED <<sheetVars, bookVars, validateVars, classifyVars, shelfVars>>

Finish(p) ==
    LET r == Run(procs[p].op, procs[p].snapshot, nextToken)
    IN  /\ procs[p].pc = "loaded"
        /\ nextToken + r.used - 1 <= MaxTokens
        /\ nextToken' = nextToken + r.used
        /\ file' = IF Saves(r.reply)
                   THEN [_save_storage(file, r.data) EXCEPT !.writer = p]
                   ELSE file
        /\ procs' = [procs EXCEPT ![p].pc = "done", ![p].reply = r.reply,
                                  ![p].saved = Saves(r.reply), ![p].out = r.data]
        /\ UNCHANGED <<data, mintedAuth, last, cascade>>
        /\ UNCHANGED <<sheetVars, bookVars, validateVars, classifyVars, shelfVars>>

(* The text of the file is damaged from outside the bot: cut short, or     *)
(* replaced by JSON that is no object.                                     *)
Damage(k) ==
    /\ file.kind = "object"
    /\ file' = [file EXCEPT !.kind = k]
    /\ UNCHANGED <<procs, dirVars, sheetVars, bookVars, validateVars, classifyVars, shelfVars>>

InitRace ==
    /\ data = EmptyStorage
    /\ nextToken = 5
    /\ mintedAuth = {3, 4}
    /\ last = NoCmd
    /\ cascade = {}
    /\ sheet = << >>
    /\ clock = 1
    /\ res = NoRes
    /\ book = NoBook
    /\ done = {}
    /\ draft = NoDraft
    /\ verdict = NoVerdict
    /\ file \in {[kind |-> "object", doc |-> d, writer |-> ""] : d \in RaceDocs}
    /\ procs = [p \in Procs |-> Idle]
    /\ cls = NoCls
    /\ shelf = NoShelf

NextRace ==
    \/ \E p \in Procs, o \in RaceOps : Load(p, o)
    \/ \E p \in Procs : Finish(p)
    \/ \E k \in {"unreadable", "not_object"} : Damage(k)

SpecRace == InitRace /\ [][NextRace]_vars

(* Properties of the storage file under SpecRace *)

(* Caller q loaded before caller p saved, and both saved. *)
Overlapped(p, q) ==
    /\ p # q
    /\ procs[p].pc = "done" /\ procs[p].saved
    /\ procs[q].pc = "done" /\ procs[q].saved
    /\ procs[q].seen # p

MembersOf(d) == UNION {d.groups[i].members : i \in DOMAIN d.groups}

C23_DamagedLoadsEmpty ==
    /\ file.kind # "object" =>
          /\ _load_storage(file) = EmptyStorage
          /\ \A u \in Users :
                /\ ~_user_in_group(_load_storage(file), u)
                /\ _user_group_id(_load_storage(file), u) = None
                /\ ~_is_authorised(_load_storage(file), u)
    /\ \A p \in Procs :
          (procs[p].pc # "idle" /\ procs[p].source # "object") =>
              /\ procs[p].snapshot = EmptyStorage
              /\ procs[p].pc = "done" =>
                    /\ procs[p].reply \notin {"authorised", "already_authorised", "joined",
                                              "already_in_group", "left", "group_deleted"}
                    /\ procs[p].saved =>
                          \E tok \in 1..(MaxTokens + 1) :
                              procs[p].out = [EmptyStorage EXCEPT !.auth_codes = <<tok>>]
                    /\ (procs[p].saved /\ file.writer = p /\ file.kind = "object") =>
                          file.doc = procs[p].out

C23_Witness ==
    \E p \in Procs :
        /\ procs[p].pc = "done" /\ procs[p].source = "unreadable" /\ procs[p].saved
        /\ file.kind = "object" /\ file.writer = p
        /\ file.doc.groups = << >> /\ file.doc.authorised_users = EmptyDict
        /\ Len(file.doc.auth_codes) = 1

-----------------------------------------------------------------------------
(* Classification of one text message: the categories of the user's group  *)
(* are resolved, the language model is called, its answer parsed, and the  *)
(* handler goes on with what _classify_finance_text returned.              *)

(* Config.income_categories and Config.expense_categories (four and three  *)
(* names in the source). *)
income_categories == <<"Salary", "Premium", "Bonus", "Other">>

expense_categories == <<"Groceries", "Clothes", "Other">>

Defaults == [income |-> income_categories, expense |-> expense_categories]

(* What get_data_validation gives for the cell: no rule ({}), a rule whose *)
(* condition has an empty values list (reading it raises IndexError), or a *)
(* rule with a formula.                                                    *)
Formulas == {"='Budget'!$A$4:$A$60", "=Budget!A4:A60", "=A4:A60", "=Budget!AA4:AB60", ""}

Rules ==
    {[kind |-> "none", formula |-> ""], [kind |-> "raises", formula |-> ""]}
    \cup {[kind |-> "formula", formula |-> f] : f \in Formulas}

(* The two re.search patterns on the formula: sheet name and range, or no  *)
(* match.                                                                  *)
MatchFormula(f) ==
    CASE f = "='Budget'!$A$4:$A$60" -> [ok |-> TRUE, sheet |-> "Budget", range |-> "A4:A60"]
      [] f = "=Budget!A4:A60" -> [ok |-> TRUE, sheet |-> "Budget", range |-> "A4:A60"]
      [] OTHER -> [ok |-> FALSE, sheet |-> "", range |-> ""]

(* What reading the referenced range gives: rows of cells, or a failure.   *)
RangeValues ==
    {<< >>,
     <<<<"">>, <<" ">>>>,
     <<<<"Food">>, <<"Taxi">>>>,
     <<<<"Food", "">>, << >>, <<" Rent">>>>}

RangeReads ==
    {[kind |-> "ok", values |-> v] : v \in RangeValues}
    \cup {[kind |-> k, values |-> << >>] : k \in {"http", "other"}}

(* v and str(v).strip() *)
Kept(v) == v \notin {"", " "}

(* [v for row in values for v in row if v and str(v).strip()] *)
RECURSIVE KeepCells(_)
KeepCells(row) ==
    IF row = << >> THEN << >>
    ELSE (IF Kept(Head(row)) THEN <<Head(row)>> ELSE << >>) \o KeepCells(Tail(row))

RECURSIVE FlattenKept(_)
FlattenKept(values) ==
    IF values = << >> THEN << >>
    ELSE KeepCells(Head(values)) \o FlattenKept(Tail(values))

(* get_categories_from_validation for one sheet: every failure inside it   *)
(* is answered with the empty list.                                        *)
get_categories_from_validation(rule, rd) ==
    IF rule.kind \in {"none", "raises"} THEN << >>
    ELSE IF ~MatchFormula(rule.formula).ok THEN << >>
    ELSE IF rd.kind = "other" THEN << >>
    ELSE FlattenKept(IF rd.kind = "http" THEN << >> ELSE rd.values)

_get_group_categories_as_found(d, u, auth_ok, inc, exp) ==
    IF _user_group_id(d, u) = None \/ ResolveLedger(d, u) = None \/ ~auth_ok
    THEN Defaults
    ELSE [income |-> get_categories_from_validation(inc.rule, inc.read),
          expense |-> get_categories_from_validation(exp.rule, exp.read)]

(* _get_group_categories of user u on document d.  auth_ok: the service    *)
(* account authenticates; inc and exp: what the spreadsheet answers for    *)
(* the income and the expense sheet.                                       *)
_get_group_categories(d, u, auth_ok, inc, exp) ==
    IF _user_group_id(d, u) = None \/ ResolveLedger(d, u) = None \/ ~auth_ok
    THEN Defaults
    ELSE LET income == get_categories_from_validation(inc.rule, inc.read)
             expense == get_categories_from_validation(exp.rule, exp.read)
         IN  [income |-> IF income = << >> THEN income_categories ELSE income,
              expense |-> IF expense = << >> THEN expense_categories ELSE expense]

(* What the rule and the range of one sheet can be. *)
Discoveries ==
    {[rule |-> r, read |-> [kind |-> "ok", values |-> <<<<"Food">>, <<"Taxi">>>>]] : r \in Rules}
    \cup {[rule |-> [kind |-> "formula", formula |-> "='Budget'!$A$4:$A$60"], read |-> rd] :
             rd \in RangeReads}

(* What one call of the model ends with: a JSON object (the draft), text   *)
(* without JSON, or an exception (of the API, or of json.loads on the text *)
(* between the braces).                                                    *)
Answers ==
    {[kind |-> "raises", value |-> FallbackResult],
     [kind |-> "no_json", value |-> FallbackResult],
     [kind |-> "dict", value |-> BaseDraft],
     [kind |-> "dict", value |-> [BaseDraft EXCEPT !.category = Null]]}

NoCats == [income |-> << >>, expense |-> << >>]

(* What _classify_finance_text returned: a dict, None, or the coroutine    *)
(* object of the second call, which "return self._classify_finance_text(   *)
(* ..., retry=False)" creates and does not await.                          *)
Returned(k, v) == [kind |-> k, value |-> v]

NoResult == Returned("", FallbackResult)

(* handle_message up to the check of the group. *)
Begin ==
    /\ cls.pc = "start"
    /\ cls' = IF _user_in_group(data, cls.user)
              THEN [cls EXCEPT !.pc = "classifying"]
              ELSE [cls EXCEPT !.pc = "handled", !.reply = "group_required"]
    /\ UNCHANGED <<dirVars, sheetVars, bookVars, validateVars, raceVars, shelfVars>>

Categories ==
    /\ cls.pc = "classifying"
    /\ cls' = [cls EXCEPT !.pc = "prompted",
                          !.cats = _get_group_categories(data, cls.user, cls.auth_ok,
                                                         cls.inc, cls.exp)]
    /\ UNCHANGED <<dirVars, sheetVars, bookVars, validateVars, raceVars, shelfVars>>

(* The call of the model and what follows it in _classify_finance_text.    *)
(* The call that raises is the first one (retry is True): the except       *)
(* clause returns the coroutine of a second call.                          *)
CallModel ==
    LET a == cls.answers[cls.calls + 1]
    IN  /\ cls.pc = "prompted"
        /\ cls' = [cls EXCEPT
                      !.pc = "returned",
                      !.calls = @ + 1,
                      !.result = CASE a.kind = "dict" ->
                                          Returned("dict", Classified(a.value, cls.user))
                                   [] a.kind = "no_json" -> Returned("none", FallbackResult)
                                   [] a.kind = "raises" -> Returned("coroutine", FallbackResult)]
        /\ UNCHANGED <<dirVars, sheetVars, bookVars, validateVars, raceVars, shelfVars>>

(* handle_message after the await: None is replaced by the fallback        *)
(* result; result.get on a coroutine raises AttributeError and a result    *)
(* without type or category ends in KeyError, both answered by the error   *)
(* reply; any other result goes on to the ledger.                          *)
Reply ==
    /\ cls.pc = "returned"
    /\ cls' = [cls EXCEPT
                  !.pc = "handled",
                  !.reply = IF cls.result.kind = "coroutine" THEN "error"
                            ELSE IF cls.result.kind = "none" THEN "error"
                            ELSE IF Truthy(cls.result.value.type)
                                    /\ Truthy(cls.result.value.category)
                            THEN "to_ledger" ELSE "error"]
    /\ UNCHANGED <<dirVars, sheetVars, bookVars, validateVars, raceVars, shelfVars>>

InitClassify ==
    /\ data = LedgerData
    /\ nextToken = 4
    /\ mintedAuth = {1}
    /\ last = NoCmd
    /\ cascade = {}
    /\ sheet = << >>
    /\ clock = 1
    /\ res = NoRes
    /\ book = NoBook
    /\ done = {}
    /\ draft = NoDraft
    /\ verdict = NoVerdict
    /\ file = NoFile
    /\ procs = NoProcs
    /\ cls \in {[pc |-> "start", user |-> u, auth_ok |-> ok, inc |-> i, exp |-> e,
                 answers |-> <<x, y>>, cats |-> NoCats, calls |-> 0,
                 result |-> NoResult, reply |-> ""] :
                    u \in Users, ok \in BOOLEAN, i \in Discoveries, e \in Discoveries,
                    x \in Answers, y \in Answers}
    /\ shelf = NoShelf

NextClassify == Begin \/ Categories \/ CallModel \/ Reply

SpecClassify == InitClassify /\ [][NextClassify]_vars

(* Properties of the classification under SpecClassify *)

(* C24: when the first call of the model fails, the model is called a      *)
(* second time and _classify_finance_text returns what that call gives:    *)
(* the draft, or None when it fails too.                                   *)
C24_RetriedOnceAndAwaited ==
    (cls.pc \in {"returned", "handled"} /\ cls.reply # "group_required"
        /\ cls.answers[1].kind = "raises") =>
        /\ cls.calls = 2
        /\ cls.result.kind = IF cls.answers[2].kind = "dict" THEN "dict" ELSE "none"

(* Discovery for one sheet finds nothing: no rule, a rule that cannot be   *)
(* read, a formula without a sheet range, a failed read, or a range        *)
(* without a non-blank cell.                                               *)
FindsNothing(x) ==
    \/ x.rule.kind # "formula"
    \/ x.rule.formula \notin {"='Budget'!$A$4:$A$60", "=Budget!A4:A60"}
    \/ x.read.kind # "ok"
    \/ \A i \in DOMAIN x.read.values : \A j \in DOMAIN x.read.values[i] :
          x.read.values[i][j] \in {"", " "}

(* C29: _get_group_categories gives a non-empty income and a non-empty     *)
(* expense list for every user; a kind whose discovery finds nothing, or   *)
(* any kind when the user has no group or the spreadsheet cannot be        *)
(* opened, has the default list of that kind.                              *)
C29_CategoriesNeverEmpty ==
    /\ \A u \in Users :
          LET c == _get_group_categories(data, u, cls.auth_ok, cls.inc, cls.exp)
          IN  /\ c.income # << >> /\ c.expense # << >>
              /\ (~_user_in_group(data, u) \/ ~cls.auth_ok) => c = Defaults
              /\ FindsNothing(cls.inc) => c.income = income_categories
              /\ FindsNothing(cls.exp) => c.expense = expense_categories
              /\ \A v \in Range(c.income) \cup Range(c.expense) : v \notin {"", " "}
    /\ LET e == _get_group_categories(EmptyStorage, 1, cls.auth_ok, cls.inc, cls.exp)
       IN  e = Defaults
    /\ LET g == [data.groups[1] EXCEPT !.spreadsheet_id = None]
           n == _get_group_categories(WithGroup(data, 1, g), g.owner_id, cls.auth_ok,
                                      cls.inc, cls.exp)
       IN  n = Defaults
    /\ cls.pc \in {"prompted", "returned", "handled"} /\ cls.reply # "group_required" =>
          /\ cls.cats.income # << >> /\ cls.cats.expense # << >>
          /\ FindsNothing(cls.inc) => cls.cats.income = income_categories
          /\ FindsNothing(cls.exp) => cls.cats.expense = expense_categories

C29_Witness ==
    /\ cls.pc = "prompted" /\ cls.auth_ok
    /\ cls.inc.read.kind = "http"
    /\ cls.cats.income = income_categories
    /\ cls.cats.expense = <<"Food", " Rent">>

-----------------------------------------------------------------------------
(* Two groups, each with a spreadsheet of its own, whose members send      *)
(* messages, click cancel buttons, leave and join.  shelf holds the        *)
(* spreadsheets by id; last is the last command, message or click handled, *)
(* with the spreadsheet id the handler resolved for its user.              *)

(* The directory after: the administrator mints a code, user 2 redeems it, *)
(* the administrator creates a group on spreadsheet 1 and user 2 a group   *)
(* on spreadsheet 2.                                                       *)
GroupsData ==
    LET d1 == auth_command(EmptyStorage, 1, 1, << >>).data
        d2 == auth_command(d1, 2, 2, <<1>>).data
        d3 == create_group_command(d2, 2, 1, <<[kind |-> "url", id |-> 1]>>).data
    IN  create_group_command(d3, 4, 2, <<[kind |-> "url", id |-> 2]>>).data

Ledgers == {GroupsData.groups[i].spreadsheet_id : i \in DOMAIN GroupsData.groups}

(* A spreadsheet as _initialize_sheets made it, or with a transaction of   *)
(* an earlier run in each sheet.                                           *)
StartBooks == {[n \in SheetNames |-> rows] : rows \in {<<HeaderRow>>, <<HeaderRow, EarlierRow>>}}

(* GoogleSheetsManager(config.service_account_file, spreadsheet_id) *)
Opened(sid) == IF sid \in DOMAIN shelf THEN shelf[sid] ELSE [n \in SheetNames |-> << >>]

Closed(sid, b) == IF sid \in DOMAIN shelf THEN [shelf EXCEPT ![sid] = b] ELSE shelf

GroupDrafts ==
    {BaseDraft, [BaseDraft EXCEPT !.amount = "0"], [BaseDraft EXCEPT !.category = Null]}

(* What the remote calls of one message answer: all succeed, the read in   *)
(* get_next_row raises, or the write of the id fails.                      *)
GroupFaults == {<<"ok", 0, "http">>, <<"other", 0, "http">>, <<"ok", 3, "http">>}

(* The cancel buttons a user can click: of the transactions added, and of  *)
(* a transaction of an earlier run.                                        *)
Buttons ==
    {[sheet_name |-> t.sheet_name, row_id |-> t.row_id] : t \in done}
    \cup {[sheet_name |-> expense_sheet_name, row_id |-> Seen]}

GroupHandled(u, d, sid, r) ==
        /\ clock <= MaxTx
        /\ shelf' = Closed(sid, r.book)
        /\ done' = IF r.success
                   THEN done \cup {[row_id |-> r.row_id, sheet_name |-> r.sheet_name,
                                    draft |-> Classified(d, u), cancelled |-> FALSE]}
                   ELSE done
        /\ clock' = IF r.row > 0 THEN clock + 1 ELSE clock
        /\ last' = Cmd("message", u, sid, Status(r))
        /\ UNCHANGED <<data, nextToken, mintedAuth, cascade, sheet, res, book,
                       validateVars, raceVars, classifyVars>>

GroupMessage(u, d, ro, fail, exc) ==
    LET sid == ResolveLedger(data, u)
    IN  GroupHandled(u, d, sid,
                     handle_message(Opened(sid), data, u, d, clock, ro, fail, exc))

GroupAudioMessage(u, d, ro, fail, exc) ==
    LET sid == ResolveLedger(data, u)
    IN  GroupHandled(u, d, sid,
                     handle_audio_message(Opened(sid), data, u, d, clock, ro, fail, exc))

GroupCallback(u, t, fail) ==
    LET sid == ResolveLedger(data, u)
        r == handle_callback(Opened(sid), data, u, t.sheet_name, t.row_id, fail)
    IN  /\ shelf' = Closed(sid, r.book)
        /\ last' = Cmd("cancel", u, sid, IF r.ok THEN "cancelled" ELSE "not_cancelled")
        /\ UNCHANGED <<data, nextToken, mintedAuth, cascade, sheetVars, bookVars,
                       validateVars, raceVars, classifyVars>>

InitGroups ==
    /\ data = GroupsData
    /\ nextToken = 6
    /\ mintedAuth = {1}
    /\ last = NoCmd
    /\ cascade = {}
    /\ sheet = << >>
    /\ clock = 1
    /\ res = NoRes
    /\ book = NoBook
    /\ done = {}
    /\ draft = NoDraft
    /\ verdict = NoVerdict
    /\ file = NoFile
    /\ procs = NoProcs
    /\ cls = NoCls
    /\ shelf \in [Ledgers -> StartBooks]

NextGroups ==
    \/ \E u \in Users, d \in GroupDrafts, f \in GroupFaults :
          GroupMessage(u, d, f[1], f[2], f[3])
    \/ \E u \in Users, d \in GroupDrafts, f \in GroupFaults :
          GroupAudioMessage(u, d, f[1], f[2], f[3])
    \/ \E u \in Users, t \in Buttons, fail \in 0..1 : GroupCallback(u, t, fail)
    \/ \E u \in Users, a \in Args(Known) : Join(u, a)
    \/ \E u \in Users : Leave(u)

SpecGroups == InitGroups /\ [][NextGroups]_vars

(* C35: a step that changes a spreadsheet is the handling of a message or  *)
(* a cancel click of a user who is, in the document the handler loads, a   *)
(* member of a group, and the spreadsheet is that group's; a user whose    *)
(* group was deleted and who has not joined another changes none.          *)
C35_OnlyCurrentGroupLedger ==
    [][\A s \in DOMAIN shelf :
          shelf'[s] # shelf[s] =>
              /\ last'.cmd \in {"message", "cancel"}
              /\ last'.user \notin cascade
              /\ \E i \in GroupsOf(data, last'.user) : data.groups[i].spreadsheet_id = s
              /\ \A o \in DOMAIN shelf \ {s} : shelf'[o] = shelf[o]]_vars

C35_Witness ==
    /\ last.cmd = "message" /\ last.reply = "added" /\ last.user = 2
    /\ GroupsOf(data, 2) # {}
    /\ \A i \in GroupsOf(data, 2) : data.groups[i].owner_id = 1
    /\ \E t \in done : Carrying(shelf[1][t.sheet_name], t.row_id) # {}
    /\ shelf[2] \in StartBooks

====
